---- MODULE Spec2Model ----
(***************************************************************************)
(* Model of the LLM extraction pipeline of backend/app/llm_parser.py:      *)
(* _extract_rows_from_text_core (three strategies, whitelist filter,       *)
(* data cleaning, regex recovery), extract_rows_from_docx (per-section     *)
(* detection, chunking, synthetic cluster rows) and                        *)
(* _postprocess_and_expand_entries (normalise, split, canonical mapping,   *)
(* dedup).  Strings are sequences of one-character strings; an LLM         *)
(* response body is a sequence of lexical tokens.  Further parts model the *)
(* deterministic parser of backend/app/utils.py, the knowledge-base        *)
(* loaders and the upload handlers of backend/app/main.py with the tasks   *)
(* of backend/app/task_queue.py.                                           *)
(***************************************************************************)
EXTENDS Integers, Sequences, FiniteSets, TLC

VARIABLES
    pc,         \* position in _extract_rows_from_text_core
    attempt,    \* loop counter of `for attempt, strategy in enumerate(strategies, 1)`
    cfg,        \* arguments and environment of the call
    data,       \* value returned (or exception raised) by _azure_chat_completion
    log,        \* one record per LLM call made so far
    result,     \* list returned by the call
    escaped,    \* exception that left the call ("none" if it returned)
    sibling,    \* history: one schema-valid entry of an earlier response
    doc,        \* knowledge base, feature flags and sections of the document
    idx,        \* loop counter of `for idx, section in enumerate(sections, 1)`
    pending,    \* chunk starts of the current section not yet sent to the LLM
    section_rows_added,
    added,      \* history: section_rows_added at the end of each section
    all_rows,   \* rows collected so far; the input of the post-processor
    returned,   \* the list _postprocess_and_expand_entries returned
    again,      \* the post-processor applied to `returned`
    sent,       \* history: the whitelists passed to _extract_rows_from_text_core
    arg,        \* the arguments of the function under call
    ret,        \* what the function returned
    db,         \* the projects table, and whether the database can be reached
    csvfile,    \* the rows of data/project.csv, or that the file is missing
    cache,      \* the module global _PROJECT_NAME_TO_CODE_CACHE of utils.py
    thr,        \* per thread: the knowledge-base load it runs and its locals
    loaded,     \* history: per loader what its last actual load returned
    tasks,      \* task_queue.tasks
    req,        \* per request: the upload handler it runs and its locals
    committed,  \* the tables report_uploads, project_history and projects as committed
    session,    \* the same tables as the open transaction of the importer sees them
    imp,        \* the import that runs: its arguments, position and locals
    subscribers,\* task_queue.subscribers: per task the queues of its streams
    stream,     \* per stream of stream_task_updates: its position and what it yielded
    analyses,   \* the table weekly_report_analysis
    contents,   \* per calendar week the aggregated project_history content
    lastcall    \* history: what the last analyze_project_pair call did

corevars == <<attempt, cfg, data, log, result, escaped, sibling>>

docvars == <<doc, idx, pending, section_rows_added, added, all_rows, returned, again, sent>>

auxvars == <<arg, ret>>

kbvars == <<db, csvfile, cache, thr, loaded>>

taskvars == <<tasks, req>>

impvars == <<committed, session, imp>>

streamvars == <<subscribers, stream>>

anavars == <<analyses, contents, lastcall>>

svcvars == <<impvars, streamvars, anavars>>

envvars == <<kbvars, taskvars, svcvars>>

vars == <<pc, corevars, docvars, auxvars, envvars>>

\* the variables of the other functions while one function runs
IdleAux == arg = <<>> /\ ret = <<>>

IdleKB == db = <<>> /\ csvfile = <<>> /\ cache = <<>> /\ thr = <<>> /\ loaded = <<>>

IdleTasks == tasks = <<>> /\ req = <<>>

IdleImp == committed = <<>> /\ session = <<>> /\ imp = <<>>

IdleStream == subscribers = <<>> /\ stream = <<>>

IdleAna == analyses = <<>> /\ contents = <<>> /\ lastcall = <<>>

IdleSvc == IdleImp /\ IdleStream /\ IdleAna

IdleEnv == IdleKB /\ IdleTasks /\ IdleSvc

-----------------------------------------------------------------------------
(* Bounds *)

MaxItems == 2       \* entries per LLM response

MaxSections == 2    \* sections per document

MaxRows == 2        \* rows handed to the post-processor

MaxPieces == 6      \* pieces per text handed to _safe_truncate_text

MaxTokens == 3      \* max_tokens handed to _safe_truncate_text

MaxLines == 4       \* lines per text handed to _split_into_sections and of a line list

MaxBlocks == 3      \* blocks per uploaded file

-----------------------------------------------------------------------------
(* Python str operations on character sequences *)

Rep(c, n) == [i \in 1..n |-> c]

Whitespace == {" ", "\n", "\t"}

UpperChars == <<"A","B","C","D","E","F","G","H","I","J","K","L","M","N","O","P","Q","R","S","T","U","V","W","X","Y","Z">>

LowerChars == <<"a","b","c","d","e","f","g","h","i","j","k","l","m","n","o","p","q","r","s","t","u","v","w","x","y","z">>

Digits == {"0","1","2","3","4","5","6","7","8","9"}

IsUpper(c) == \E i \in 1..26 : UpperChars[i] = c

ToLower(c) == IF IsUpper(c) THEN LowerChars[CHOOSE i \in 1..26 : UpperChars[i] = c] ELSE c

SetMin(S) == CHOOSE m \in S : \A k \in S : m <= k

\* str.lower()
lower(s) == [i \in 1..Len(s) |-> ToLower(s[i])]

\* str.strip()
strip(s) ==
    IF \A i \in 1..Len(s) : s[i] \in Whitespace THEN <<>>
    ELSE LET first == CHOOSE i \in 1..Len(s) :
                        s[i] \notin Whitespace /\ \A j \in 1..(i - 1) : s[j] \in Whitespace
             last == CHOOSE i \in 1..Len(s) :
                        s[i] \notin Whitespace /\ \A j \in (i + 1)..Len(s) : s[j] \in Whitespace
         IN  SubSeq(s, first, last)

\* s[:n]
Prefix(s, n) == IF Len(s) <= n THEN s ELSE SubSeq(s, 1, n)

\* a in b
IsSubstring(a, b) ==
    \E i \in 0..(Len(b) - Len(a)) : SubSeq(b, i + 1, i + Len(a)) = a

\* the subsequence of s at the positions in the set I
RECURSIVE SelectAtFrom(_, _, _, _)
SelectAtFrom(s, I, lo, hi) ==
    IF lo > hi THEN <<>>
    ELSE IF lo = hi THEN (IF lo \in I THEN <<s[lo]>> ELSE <<>>)
    ELSE SelectAtFrom(s, I, lo, (lo + hi) \div 2) \o SelectAtFrom(s, I, ((lo + hi) \div 2) + 1, hi)

SelectAt(s, I) == SelectAtFrom(s, I, 1, Len(s))

\* every character of the input texts, in code point order
Ascii == <<"\t", "\n", " ", "&", "(", ")", "+", ",", "-", ".", "/",
           "0","1","2","3","4","5","6","7","8","9",
           "A","B","C","D","E","F","G","H","I","J","K","L","M","N","O","P","Q","R","S","T","U","V","W","X","Y","Z",
           "_",
           "a","b","c","d","e","f","g","h","i","j","k","l","m","n","o","p","q","r","s","t","u","v","w","x","y","z">>

\* a < b for Python str
StrLess(a, b) ==
    LET Ord(c) == CHOOSE i \in 1..Len(Ascii) : Ascii[i] = c
    IN  \E k \in 1..(Len(b)) :
            /\ k <= Len(a) + 1
            /\ SubSeq(a, 1, k - 1) = SubSeq(b, 1, k - 1)
            /\ (k = Len(a) + 1 \/ Ord(a[k]) < Ord(b[k]))

\* \w of re
WordChars == {Ascii[i] : i \in 12..Len(Ascii)}

\* [A-Z0-9] of re
UpperDigits == {Ascii[i] : i \in 12..47}

\* \S of re
NonSpace == {Ascii[i] : i \in 4..Len(Ascii)}

\* the last index of the run of characters of C that starts at i (i - 1 when
\* s[i] is not in C)
RunEnd(s, i, C) ==
    CHOOSE j \in (i - 1)..Len(s) :
        /\ \A k \in i..j : s[k] \in C
        /\ (j = Len(s) \/ s[j + 1] \notin C)

\* no word character at position i: with a word character next to it, \b
NoWordAt(s, i) == i < 1 \/ i > Len(s) \/ s[i] \notin WordChars

\* s has the lower-case word w at position i, ignoring case
HasAt(s, i, w) ==
    /\ i >= 1
    /\ i + Len(w) - 1 <= Len(s)
    /\ \A k \in 1..Len(w) : ToLower(s[i + k - 1]) = w[k]

\* re.sub(pattern, "", s) from position j on, where ends[i] >= i is the end of
\* the match of pattern that starts at i and ends[i] = 0 says there is none
RECURSIVE RemoveSpans(_, _, _)
RemoveSpans(s, ends, j) ==
    IF j > Len(s) THEN <<>>
    ELSE IF ends[j] >= j THEN RemoveSpans(s, ends, ends[j] + 1)
    ELSE <<s[j]>> \o RemoveSpans(s, ends, j + 1)

\* re.sub(r"[C]+", " ", s)
ReplaceRuns(s, C) ==
    SelectAt([i \in 1..Len(s) |-> IF s[i] \in C THEN " " ELSE s[i]],
             {i \in 1..Len(s) : ~(s[i] \in C /\ i > 1 /\ s[i - 1] \in C)})

\* re.findall(r"[C]+", s)
Runs(s, C) ==
    LET From(starts) == [k \in 1..Len(starts) |-> SubSeq(s, starts[k], RunEnd(s, starts[k], C))]
    IN  From(SelectAt([i \in 1..Len(s) |-> i],
                      {i \in 1..Len(s) : s[i] \in C /\ (i = 1 \/ s[i - 1] \notin C)}))

\* re.sub(re.escape(a), b, s) from position j on
RECURSIVE ReplaceAll(_, _, _, _)
ReplaceAll(s, a, b, j) ==
    IF j > Len(s) THEN <<>>
    ELSE IF a # <<>> /\ j + Len(a) - 1 <= Len(s) /\ SubSeq(s, j, j + Len(a) - 1) = a
    THEN b \o ReplaceAll(s, a, b, j + Len(a))
    ELSE <<s[j]>> \o ReplaceAll(s, a, b, j + 1)

\* the elements of xs whose key no earlier element has: the `seen` loops
DedupBy(xs, keys) ==
    SelectAt(xs, {j \in 1..Len(xs) : \A i \in 1..(j - 1) : keys[i] # keys[j]})

\* [x for xs in xss for x in xs]
RECURSIVE Flatten(_)
Flatten(xss) == IF xss = <<>> THEN <<>> ELSE Head(xss) \o Flatten(Tail(xss))

-----------------------------------------------------------------------------
(* rapidfuzz: fuzz.token_set_ratio without a processor.  A score is the      *)
(* fraction n/d of 100.                                                      *)

\* " ".join(sorted(T))
RECURSIVE SortedJoin(_)
SortedJoin(T) ==
    IF T = {} THEN <<>>
    ELSE LET Rest(m) == IF T = {m} THEN m ELSE m \o <<" ">> \o SortedJoin(T \ {m})
         IN  Rest(CHOOSE m \in T : \A x \in T \ {m} : StrLess(m, x))

\* cells j..Len(b) of the row of the character c in the table of the longest
\* common subsequence, from the row above and the cell to the left
RECURSIVE LCSRow(_, _, _, _, _)
LCSRow(above, c, b, j, left) ==
    IF j > Len(b) THEN <<>>
    ELSE CHOOSE cells \in {<<v>> \o LCSRow(above, c, b, j + 1, v) :
                              v \in {IF c = b[j] THEN (IF j = 1 THEN 0 ELSE above[j - 1]) + 1
                                     ELSE IF above[j] >= left THEN above[j] ELSE left}} : TRUE

\* the last row of the table, from row i on
RECURSIVE LCSRows(_, _, _, _)
LCSRows(a, b, i, above) ==
    IF i > Len(a) THEN above
    ELSE CHOOSE last \in {LCSRows(a, b, i + 1, row) : row \in {LCSRow(above, a[i], b, 1, 0)}} : TRUE

\* the Indel distance of a and b
Indel(a, b) ==
    IF Len(a) = 0 \/ Len(b) = 0 THEN Len(a) + Len(b)
    ELSE Len(a) + Len(b) - 2 * LCSRows(a, b, 1, [j \in 1..Len(b) |-> 0])[Len(b)]

ScoreLess(x, y) == x.n * y.d < y.n * x.d

\* score >= threshold
ScoreAtLeast(x, threshold) == 100 * x.n >= threshold * x.d

token_set_ratio(s1, s2) ==
    LET Norm(dist, lensum) ==
            IF lensum > 0 THEN [n |-> lensum - dist, d |-> lensum] ELSE [n |-> 1, d |-> 1]
        Best(x, y) == IF ScoreLess(x, y) THEN y ELSE x
        Max3(ratio, sect_ab_ratio, sect_ba_ratio) == Best(Best(ratio, sect_ab_ratio), sect_ba_ratio)
        Ratios(sect_len, sep, ab, ba) ==
            IF sect_len = 0 THEN Norm(Indel(ab, ba), Len(ab) + Len(ba))
            ELSE Max3(Norm(Indel(ab, ba), 2 * (sect_len + sep) + Len(ab) + Len(ba)),
                      Norm(sep + Len(ab), 2 * sect_len + sep + Len(ab)),
                      Norm(sep + Len(ba), 2 * sect_len + sep + Len(ba)))
        Joined(sect, ab, ba) == Ratios(Len(sect), IF sect = <<>> THEN 0 ELSE 1, ab, ba)
        Sets(tokens_a, tokens_b) ==
            IF tokens_a = {} \/ tokens_b = {} THEN [n |-> 0, d |-> 1]
            ELSE IF tokens_a \cap tokens_b # {} /\ (tokens_a \subseteq tokens_b \/ tokens_b \subseteq tokens_a)
            THEN [n |-> 1, d |-> 1]
            ELSE Joined(SortedJoin(tokens_a \cap tokens_b), SortedJoin(tokens_a \ tokens_b),
                        SortedJoin(tokens_b \ tokens_a))
        Split(a, b) == Sets({a[k] : k \in 1..Len(a)}, {b[k] : k \in 1..Len(b)})
    IN  Split(Runs(s1, NonSpace), Runs(s2, NonSpace))

\* Optional[str] and Optional[CategoryEnum]
NoneS == [isNone |-> TRUE, val |-> <<>>]

Some(s) == [isNone |-> FALSE, val |-> s]

NoneC == [isNone |-> TRUE, val |-> ""]

SomeC(c) == [isNone |-> FALSE, val |-> c]

-----------------------------------------------------------------------------
(* Program constants of _extract_rows_from_text_core *)

MinEvidenceLen == 80

SummaryMax == 1000

FilterSummaryPrefix == 8

NumStrategies == 3

\* strategies[k]: keyword arguments passed to _azure_chat_completion
strategies == <<[use_json_mode |-> TRUE,  use_function_calling |-> FALSE],
                [use_json_mode |-> FALSE, use_function_calling |-> TRUE],
                [use_json_mode |-> FALSE, use_function_calling |-> FALSE]>>

\* CategoryEnum values
CategoryEnum == {"Development", "EPC", "Finance", "Investment"}

-----------------------------------------------------------------------------
(* Texts used as inputs *)

DivorPV1 == <<"D","i","v","o","r"," ","P","V","1">>

DivorPV2 == <<"D","i","v","o","r"," ","P","V","2">>

divorpv1Padded == <<" ","d","i","v","o","r"," ","p","v","1"," ">>

FakeProject == <<"F","a","k","e">>

NoSummaryProvided == <<"N","o"," ","s","u","m","m","a","r","y"," ","p","r","o","v","i","d","e","d">>

SectionText == <<" ">> \o DivorPV1 \o <<" ">> \o Rep("x", 80) \o <<"\n">>

EvidenceInSection == <<" ">> \o Rep("x", 80) \o <<" ">>

EvidenceFabricated == Rep("z", 80)

EvidenceShortAfterTrim == <<" ", " ">> \o Rep("x", 79)

EvidenceShort == <<"x","x">>

-----------------------------------------------------------------------------
(* JSON entries an LLM response may carry.  obj: the entry is a JSON object; *)
(* pn, summary: key missing or a string; category: "missing", "" or a       *)
(* string; br: some string value of the entry contains "[...]".             *)

Absent == [k |-> "missing", v |-> <<>>]

Str(s) == [k |-> "str", v |-> s]

Obj(pn, summary, category, source_text, br) ==
    [obj |-> TRUE, pn |-> pn, summary |-> summary, category |-> category,
     source_text |-> source_text, title |-> NoneS, br |-> br]

Scalar ==
    [obj |-> FALSE, pn |-> Absent, summary |-> Absent, category |-> "missing",
     source_text |-> NoneS, title |-> NoneS, br |-> FALSE]

ItemPool == <<
    Obj(Str(DivorPV1), Str(<<"o","k">>), "Finance", NoneS, FALSE),
    Obj(Str(FakeProject), Str(<<"f","k">>), "missing", Some(EvidenceFabricated), FALSE),
    Obj(Str(<<" ">>), Str(<<"s">>), "missing", NoneS, FALSE),
    Obj(Str(DivorPV1), Str(<<"b","c">>), "Bogus", NoneS, FALSE),
    Scalar,
    Obj(Absent, Str(<<"s">>), "missing", NoneS, FALSE),
    Obj(Str(divorpv1Padded), Str(<<" ">>), "", Some(EvidenceShort), TRUE),
    Obj(Str(DivorPV2), Str(<<"u","p">>), "EPC", Some(EvidenceInSection), FALSE),
    Obj(Str(DivorPV2), Absent, "EPC", Some(EvidenceShortAfterTrim), FALSE) >>

ItemIds == 1..Len(ItemPool)

\* lists of at most MaxItems entries: in pool order, in reverse pool order, or
\* one entry repeated
ItemLists ==
    {xs \in UNION {[1..n -> ItemIds] : n \in 0..MaxItems} :
        \/ \A j \in 1..(Len(xs) - 1) : xs[j] < xs[j + 1]
        \/ \A j \in 1..(Len(xs) - 1) : xs[j] > xs[j + 1]
        \/ \A j \in 1..(Len(xs) - 1) : xs[j] = xs[j + 1]}

-----------------------------------------------------------------------------
(* schemas/llm_extraction.py *)

\* ProjectEntry(**item) raises ValidationError iff ~EntryValid(item)
EntryValid(it) ==
    /\ it.obj
    /\ it.pn.k = "str"
    /\ strip(it.pn.v) # <<>>
    /\ it.category \in CategoryEnum \cup {"missing", ""}

\* the validated ProjectEntry
ProjectEntry(it) ==
    [project_name |-> strip(it.pn.v),
     title        |-> it.title,
     summary      |-> IF it.summary.k = "missing" THEN <<>>
                      ELSE IF strip(it.summary.v) = <<>> THEN NoSummaryProvided
                      ELSE strip(it.summary.v),
     next_actions |-> NoneS,
     owner        |-> NoneS,
     category     |-> IF it.category \in CategoryEnum THEN SomeC(it.category) ELSE NoneC,
     source_text  |-> it.source_text]

\* ExtractionResponse(**raw_data): "ok", "ValidationError", or "TypeError"
\* when raw_data is not a mapping
ExtractionResponse(raw) ==
    IF raw.shape = "scalar" THEN "TypeError"
    ELSE IF raw.shape = "norows" THEN "ValidationError"
    ELSE IF \A j \in 1..Len(raw.rows) : EntryValid(ItemPool[raw.rows[j]]) THEN "ok"
    ELSE "ValidationError"

\* _normalize_category
NormalizeCategory(cat) ==
    IF cat.isNone THEN NoneC
    ELSE LET key == cat.val
             mapping == [c \in CategoryEnum |-> c]
         IN  IF key \in DOMAIN mapping THEN SomeC(mapping[key]) ELSE NoneC

-----------------------------------------------------------------------------
(* Response bodies as token sequences.  Tokens: "[" (lb), "]" (rb),         *)
(* `{"rows":` (rk), the "}" closing that object (oc), "," (comma), prose     *)
(* without brackets (txt), "```json" (fo), "```" (fc), a complete JSON       *)
(* value ItemPool[i] (item) and the head of an object cut off by the token   *)
(* limit (cut).                                                              *)

Tok(t) == [t |-> t, i |-> 0]

It(i) == [t |-> "item", i |-> i]

RECURSIVE Join(_)
Join(xs) ==
    IF Len(xs) = 0 THEN <<>>
    ELSE IF Len(xs) = 1 THEN <<It(xs[1])>>
    ELSE <<It(xs[1]), Tok("comma")>> \o Join(Tail(xs))

TArr(xs) == <<Tok("lb")>> \o Join(xs) \o <<Tok("rb")>>

TObj(xs) == <<Tok("rk")>> \o TArr(xs) \o <<Tok("oc")>>

TFenced(xs) == <<Tok("fo")>> \o TObj(xs) \o <<Tok("fc")>>

TProse(xs) == <<Tok("txt")>> \o TArr(xs) \o <<Tok("txt")>>

TTrunc(xs) == <<Tok("rk"), Tok("lb")>> \o Join(xs)

TTruncMid(xs) == <<Tok("rk"), Tok("lb")>> \o Join(xs) \o <<Tok("comma"), Tok("cut")>>

\* ts is value (, value)*
IsItemList(ts) ==
    \/ Len(ts) = 0
    \/ /\ Len(ts) % 2 = 1
       /\ \A j \in 1..Len(ts) : IF j % 2 = 1 THEN ts[j].t = "item" ELSE ts[j].t = "comma"

ItemsOf(ts) == [j \in 1..((Len(ts) + 1) \div 2) |-> ts[2 * j - 1].i]

NoParse == [ok |-> FALSE, shape |-> "none", rows |-> <<>>]

\* json.loads(content) followed by `if isinstance(raw_data, list): raw_data = {"rows": raw_data}`
JsonLoads(ts) ==
    LET n == Len(ts)
    IN  IF n >= 2 /\ ts[1].t = "lb" /\ ts[n].t = "rb" /\ IsItemList(SubSeq(ts, 2, n - 1))
        THEN [ok |-> TRUE, shape |-> "rows", rows |-> ItemsOf(SubSeq(ts, 2, n - 1))]
        ELSE IF n >= 4 /\ ts[1].t = "rk" /\ ts[2].t = "lb" /\ ts[n - 1].t = "rb" /\ ts[n].t = "oc"
                /\ IsItemList(SubSeq(ts, 3, n - 2))
        THEN [ok |-> TRUE, shape |-> "rows", rows |-> ItemsOf(SubSeq(ts, 3, n - 2))]
        ELSE IF n = 1 /\ ts[1].t = "item"
        THEN [ok |-> TRUE, shape |-> IF ItemPool[ts[1].i].obj THEN "norows" ELSE "scalar", rows |-> <<>>]
        ELSE NoParse

\* re.sub(r"```json\s*", "", content); re.sub(r"\s*```", "", content); content.strip()
StripFences(ts) == SelectSeq(ts, LAMBDA k : k.t \notin {"fo", "fc"})

HasOpen(k) == k.t = "lb" \/ (k.t = "item" /\ ItemPool[k.i].br)

HasClose(k) == k.t = "rb" \/ (k.t = "item" /\ ItemPool[k.i].br)

\* _extract_array_from_malformed_content: re.search(r'\[.*?\]') runs from the
\* first "[" to the first "]" after it, and the match is parsed on its own
_extract_array_from_malformed_content(ts) ==
    LET Objects(parsed) ==
            IF ~parsed.ok THEN <<>> ELSE SelectSeq(parsed.rows, LAMBDA i : ItemPool[i].obj)
        Match(p, q) ==
            IF ts[q].t # "rb" THEN <<>> ELSE Objects(JsonLoads(SubSeq(ts, p, q)))
        To(p, closes) ==
            IF ts[p].t # "lb" \/ closes = {} THEN <<>> ELSE Match(p, SetMin(closes))
        From(opens) ==
            IF opens = {} THEN <<>>
            ELSE To(SetMin(opens), {j \in (SetMin(opens) + 1)..Len(ts) : HasClose(ts[j])})
    IN  From({j \in 1..Len(ts) : HasOpen(ts[j])})

IsObjTok(k) == k.t = "item" /\ ItemPool[k.i].obj

\* _extract_complete_entries_from_partial_json: what follows `"rows": [` is
\* split on "},{"; piece 0 gets a second "{" and never parses, a middle piece
\* parses when it is exactly one object, the last piece when it is exactly one
\* object ending the text
_extract_complete_entries_from_partial_json(ts) ==
    LET Ids(kept) == [j \in 1..Len(kept) |-> kept[j].i]
        Pieces(r, splits) ==
            Ids(SelectAt(r, {j \in 3..Len(r) :
                                /\ r[j].t = "item"
                                /\ (j - 2) \in splits
                                /\ (j \in splits \/ j = Len(r))}))
        Split(r) ==
            Pieces(r, {j \in 1..(Len(r) - 2) :
                          /\ IsObjTok(r[j])
                          /\ r[j + 1].t = "comma"
                          /\ (r[j + 2].t = "cut" \/ IsObjTok(r[j + 2]))})
        After(starts) ==
            IF starts = {} THEN <<>> ELSE Split(SubSeq(ts, SetMin(starts) + 2, Len(ts)))
    IN  After({j \in 1..(Len(ts) - 1) : ts[j].t = "rk" /\ ts[j + 1].t = "lb"})

-----------------------------------------------------------------------------
(* _extract_rows_from_text_core *)

\* allowed_projects of _filter_rows
AllowedProjects(c) ==
    {lower(c.whitelist_projects[j]) : j \in 1..Len(c.whitelist_projects)}
    \cup UNION {{lower(c.cluster_members[j].members[m]) : m \in 1..Len(c.cluster_members[j].members)}
                : j \in 1..Len(c.cluster_members)}

FilterName(it) == IF it.obj /\ it.pn.k = "str" THEN strip(it.pn.v) ELSE <<>>

FilterKey(it) ==
    <<lower(FilterName(it)),
      lower(Prefix(IF it.summary.k = "str" THEN it.summary.v ELSE <<>>, FilterSummaryPrefix)),
      IF it.category = "missing" THEN "" ELSE it.category>>

\* _filter_rows(data_rows)
_filter_rows(rows, c) ==
    LET Filter(allowed, items) ==
            LET Pass(j) == items[j].obj /\ lower(FilterName(items[j])) \in allowed
            IN  SelectAt(rows, {j \in 1..Len(rows) :
                                  /\ Pass(j)
                                  /\ ~\E i \in 1..(j - 1) :
                                        Pass(i) /\ FilterKey(items[i]) = FilterKey(items[j])})
        Allowed(allowed) ==
            IF allowed = {} THEN rows ELSE Filter(allowed, [j \in 1..Len(rows) |-> ItemPool[rows[j]]])
    IN  Allowed(AllowedProjects(c))

\* _clean_raw_data_for_validation(raw_data): {} is modelled as shape "norows"
_clean_raw_data_for_validation(raw) ==
    LET Cleaned(cleaned_rows) ==
            IF raw.shape = "rows" /\ cleaned_rows # <<>>
            THEN [ok |-> TRUE, shape |-> "rows", rows |-> cleaned_rows]
            ELSE [ok |-> TRUE, shape |-> "norows", rows |-> <<>>]
        Dict(it) == it.obj /\ it.pn.k # "missing"
    IN  Cleaned(SelectSeq(raw.rows, LAMBDA i : Dict(ItemPool[i])))

\* mutant: the length test is made on the untrimmed evidence
SourceTextUntrimmedLength(entry, text) ==
    LET fallback_section == strip(text)
        provided == strip(entry.source_text.val)
    IN  IF entry.source_text.isNone THEN NoneS
        ELSE IF Len(entry.source_text.val) >= MinEvidenceLen THEN Some(provided)
        ELSE Some(fallback_section)

\* the source_text policy, lines 455-461 / 483-489 / 515-521
SourceText(entry, text) ==
    LET fallback_section == strip(text)
        provided == strip(entry.source_text.val)
    IN  IF entry.source_text.isNone THEN NoneS
        ELSE IF Len(provided) >= MinEvidenceLen THEN Some(provided)
        ELSE Some(fallback_section)

\* the dict appended to result for one validated entry
Row(entry, text, category) ==
    [project_name |-> entry.project_name,
     title        |-> entry.title,
     summary      |-> Prefix(entry.summary, SummaryMax),
     next_actions |-> entry.next_actions,
     owner        |-> entry.owner,
     category     |-> category,
     source_text  |-> SourceText(entry, text)]

\* lines 451-470
DirectRows(rows, text) ==
    LET Append1(entry) == Row(entry, text, NormalizeCategory(entry.category))
    IN  [j \in 1..Len(rows) |-> Append1(ProjectEntry(ItemPool[rows[j]]))]

\* lines 480-498
CleanedRows(rows, text) ==
    LET Append1(entry) == Row(entry, text, entry.category)
    IN  [j \in 1..Len(rows) |-> Append1(ProjectEntry(ItemPool[rows[j]]))]

\* lines 506-532
RegexRows(content, text) ==
    LET Entries(first) ==
            IF first = <<>> THEN _extract_complete_entries_from_partial_json(content) ELSE first
        Valid(entries) == SelectSeq(entries, LAMBDA i : EntryValid(ItemPool[i]))
    IN  CleanedRows(Valid(Entries(_extract_array_from_malformed_content(content))), text)

-----------------------------------------------------------------------------
(* _normalize_project_name, _expand_conjoined, _map_to_canonical,            *)
(* _postprocess_and_expand_entries                                           *)

HexMin == 6

CanonicalThreshold == 90

DedupPrefix == 200

\* re.sub(r"^\([^)]+\)\s+", "", s)
StripCountry(s) ==
    LET CutAt(k) ==
            IF k >= 3 /\ k < Len(s) /\ s[k + 1] \in Whitespace
            THEN SubSeq(s, RunEnd(s, k + 1, Whitespace) + 1, Len(s))
            ELSE s
        Cut(closes) == IF closes = {} THEN s ELSE CutAt(SetMin(closes))
    IN  IF Len(s) = 0 \/ s[1] # "(" THEN s ELSE Cut({k \in 2..Len(s) : s[k] = ")"})

\* the end of (?:MWp?|MVA|MWh(?:/\d+h)?|GWh)\b at u, ignoring case (0: no match)
UnitEnd(s, u) ==
    LET Word(w) == IF HasAt(s, u, w) /\ NoWordAt(s, u + Len(w)) THEN u + Len(w) - 1 ELSE 0
        Hours(h) == IF HasAt(s, h, <<"h">>) /\ NoWordAt(s, h + 1) THEN h ELSE 0
        PerHours ==
            IF HasAt(s, u, <<"m","w","h","/">>) /\ u + 4 <= Len(s) /\ s[u + 4] \in Digits
            THEN Hours(RunEnd(s, u + 4, Digits) + 1)
            ELSE 0
        First(alts, hits) == IF hits = {} THEN 0 ELSE alts[SetMin(hits)]
        Ordered(alts) == First(alts, {k \in 1..Len(alts) : alts[k] > 0})
    IN  Ordered(<<Word(<<"m","w","p">>), Word(<<"m","w">>), Word(<<"m","v","a">>), PerHours,
                  Word(<<"m","w","h">>), Word(<<"g","w","h">>)>>)

\* the end of \b\d+(?:[.,]\d+)?\s*(?:MWp?|MVA|MWh(?:/\d+h)?|GWh)\b at i (0: no match)
CapacityEnd(s, i) ==
    LET Space(j) == UnitEnd(s, RunEnd(s, j + 1, Whitespace) + 1)
        Fraction(j) ==
            IF j + 2 <= Len(s) /\ s[j + 1] \in {".", ","} /\ s[j + 2] \in Digits
            THEN Space(RunEnd(s, j + 2, Digits))
            ELSE Space(j)
    IN  IF s[i] \in Digits /\ NoWordAt(s, i - 1) THEN Fraction(RunEnd(s, i, Digits)) ELSE 0

\* the end of \s*\([^)]*\) at i (0: no match)
ParenEnd(s, i) ==
    LET Close(closes) == IF closes = {} THEN 0 ELSE SetMin(closes)
        Open(p) ==
            IF p <= Len(s) /\ s[p] = "(" THEN Close({k \in (p + 1)..Len(s) : s[k] = ")"}) ELSE 0
    IN  Open(RunEnd(s, i, Whitespace) + 1)

\* the end of \b[A-Z0-9]{6,}\b at i (0: no match)
HexEnd(s, i) ==
    LET Run(j) == IF j - i + 1 >= HexMin /\ NoWordAt(s, j + 1) THEN j ELSE 0
    IN  IF s[i] \in UpperDigits /\ NoWordAt(s, i - 1) THEN Run(RunEnd(s, i, UpperDigits)) ELSE 0

_normalize_project_name(raw) ==
    LET Capacity(s) == RemoveSpans(s, [i \in 1..Len(s) |-> CapacityEnd(s, i)], 1)
        Details(s) == RemoveSpans(s, [i \in 1..Len(s) |-> ParenEnd(s, i)], 1)
        Ids(s) == RemoveSpans(s, [i \in 1..Len(s) |-> HexEnd(s, i)], 1)
        Separators(s) == strip(ReplaceRuns(ReplaceRuns(s, {"_", "-"}), Whitespace))
        Rules(s) == IF s = <<>> THEN s ELSE Separators(Ids(Details(Capacity(StripCountry(s)))))
    IN  Rules(strip(raw))

\* s from j on matches (?:\s*(?:\+|&|,|/|and)\s*\d+){n,}\s*$ with n = 0 when
\* some is TRUE and n = 1 otherwise
RECURSIVE ConjoinedTail(_, _, _)
ConjoinedTail(s, j, some) ==
    LET Number(d) ==
            /\ d <= Len(s)
            /\ s[d] \in Digits
            /\ ConjoinedTail(s, RunEnd(s, d, Digits) + 1, TRUE)
        Conjunction(c) ==
            IF c > Len(s) THEN some
            ELSE IF s[c] \in {"+", "&", ",", "/"} THEN Number(RunEnd(s, c + 1, Whitespace) + 1)
            ELSE IF HasAt(s, c, <<"a","n","d">>) THEN Number(RunEnd(s, c + 3, Whitespace) + 1)
            ELSE FALSE
    IN  Conjunction(RunEnd(s, j, Whitespace) + 1)

\* the length of (?P<prefix>PV|Wind|ESS|A|B|C|D) at i, ignoring case (0: no match)
PrefixLen(s, i) ==
    IF HasAt(s, i, <<"p","v">>) THEN 2
    ELSE IF HasAt(s, i, <<"w","i","n","d">>) THEN 4
    ELSE IF HasAt(s, i, <<"e","s","s">>) THEN 3
    ELSE IF i <= Len(s) /\ ToLower(s[i]) \in {"a", "b", "c", "d"} THEN 1
    ELSE 0

\* _CONJOIN_RE.match(s) with a base of b characters
ConjoinAt(s, b) ==
    LET Numbers(t) ==
            t <= Len(s) /\ s[t] \in Digits /\ ConjoinedTail(s, RunEnd(s, t, Digits) + 1, FALSE)
        With(i, n) ==
            IF n > 0 /\ Numbers(RunEnd(s, i + n, Whitespace) + 1)
            THEN [ok |-> TRUE, base |-> strip(SubSeq(s, 1, b)), prefix |-> SubSeq(s, i, i + n - 1)]
            ELSE [ok |-> Numbers(i), base |-> strip(SubSeq(s, 1, b)), prefix |-> <<>>]
        After(i) == With(i, PrefixLen(s, i))
    IN  IF \E k \in 1..b : s[k] = "\n" THEN [ok |-> FALSE, base |-> <<>>, prefix |-> <<>>]
        ELSE After(RunEnd(s, b + 1, Whitespace) + 1)

_expand_conjoined(name) ==
    LET Uniq(outs) == DedupBy(outs, [k \in 1..Len(outs) |-> lower(outs[k])])
        Outs(m, nums) ==
            Uniq([k \in 1..Len(nums) |-> strip(m.base \o <<" ">> \o m.prefix \o nums[k])])
        Shortest(s, bases) ==
            IF bases = {} THEN <<name>> ELSE Outs(ConjoinAt(s, SetMin(bases)), Runs(name, Digits))
        Match(s) == Shortest(s, {b \in 1..Len(s) : ConjoinAt(s, b).ok})
    IN  Match(strip(name))

\* process.extractOne keeps the first choice of the highest score
_map_to_canonical(pname, project_names) ==
    LET Accept(scores, best) ==
            IF ScoreAtLeast(scores[best], CanonicalThreshold) THEN project_names[best] ELSE pname
        Best(scores) ==
            IF scores = <<>> THEN pname
            ELSE Accept(scores, CHOOSE i \in 1..Len(scores) :
                                    /\ \A j \in 1..(i - 1) : ScoreLess(scores[j], scores[i])
                                    /\ \A j \in i..Len(scores) : ~ScoreLess(scores[i], scores[j]))
    IN  Best([i \in 1..Len(project_names) |-> token_set_ratio(pname, project_names[i])])

\* re.sub(r"\s+", " ", x.strip().lower())
NormalizeKey(x) == ReplaceRuns(lower(strip(x)), Whitespace)

\* mutant: the key keeps the letters' case
DedupKeyCaseSensitive(r) ==
    LET Collapsed(x) == ReplaceRuns(strip(x), Whitespace)
    IN  <<Collapsed(r.project_name),
          Collapsed(r.title.val),
          Collapsed(Prefix(r.summary, DedupPrefix)),
          Collapsed(Prefix(r.source_text.val, DedupPrefix))>>

\* the dedup key of a row, lines 883-888
DedupKey(r) ==
    <<NormalizeKey(r.project_name),
      NormalizeKey(r.title.val),
      NormalizeKey(Prefix(r.summary, DedupPrefix)),
      NormalizeKey(Prefix(r.source_text.val, DedupPrefix))>>

_postprocess_and_expand_entries(rows, project_names) ==
    LET Title(r, pname, i) ==
            IF i > 1 /\ r.title.val # <<>>
            THEN Some(ReplaceAll(r.title.val, r.project_name, pname, 1))
            ELSE r.title
        Split(r, candidates) ==
            [i \in 1..Len(candidates) |->
                [r EXCEPT !.project_name = candidates[i], !.title = Title(r, candidates[i], i)]]
        Candidates(names) ==
            [i \in 1..Len(names) |->
                _map_to_canonical(_normalize_project_name(names[i]), project_names)]
        Expand(r) == Split(r, Candidates(_expand_conjoined(_normalize_project_name(r.project_name))))
        Uniq(out) == DedupBy(out, [j \in 1..Len(out) |-> DedupKey(out[j])])
    IN  Uniq(Flatten([j \in 1..Len(rows) |-> Expand(rows[j])]))

-----------------------------------------------------------------------------
(* Values of `data` *)

NoText == [k |-> "absent", toks |-> <<>>]

NoData == [kind |-> "none", exc |-> "none", content |-> NoText, fcall |-> NoText]

\* _azure_chat_completion raised exc
Raised(exc) == [kind |-> "raise", exc |-> exc, content |-> NoText, fcall |-> NoText]

\* choices[0].message.content is the text ts
Content(ts) == [kind |-> "ok", exc |-> "none", content |-> [k |-> "text", toks |-> ts], fcall |-> NoText]

\* choices[0].message.content is null
NullContent == [kind |-> "ok", exc |-> "none", content |-> [k |-> "null", toks |-> <<>>], fcall |-> NoText]

\* choices[0].message has no content key
AbsentContent == [kind |-> "ok", exc |-> "none", content |-> NoText, fcall |-> NoText]

\* choices[0].message.function_call = {name: extract_project_entries, arguments: ts}
FunctionCall(ts) ==
    [kind |-> "ok", exc |-> "none", content |-> [k |-> "null", toks |-> <<>>],
     fcall |-> [k |-> "text", toks |-> ts]]

Contents ==
    {TObj(xs) : xs \in ItemLists} \cup {TArr(xs) : xs \in ItemLists}
    \cup {TProse(xs) : xs \in ItemLists} \cup {TFenced(xs) : xs \in ItemLists}
    \cup {TTrunc(xs) : xs \in ItemLists} \cup {TTruncMid(xs) : xs \in ItemLists}
    \cup {<<It(i)>> : i \in ItemIds} \cup {<<Tok("txt")>>, <<>>}

Responses ==
    {Raised("HTTPError"), NullContent, AbsentContent}
    \cup {Content(ts) : ts \in Contents}
    \cup {FunctionCall(TObj(xs)) : xs \in {ys \in ItemLists : Len(ys) <= 1}}

\* arguments and environment of one call
ClusterMadrid == <<"C","l","u","s","t","e","r"," ","M","a","d","r","i","d">>

\* with enforcement off the lists only reach the prompt; without credentials
\* no response is read
Configs ==
    {c \in [text : {SectionText},
            whitelist_projects : {<<>>, <<DivorPV1>>},
            cluster_members : {<<>>, <<[cluster |-> ClusterMadrid, members |-> <<DivorPV1, DivorPV2>>]>>},
            enforce : BOOLEAN,
            creds : BOOLEAN] :
        (~c.enforce \/ ~c.creds) => (c.whitelist_projects = <<DivorPV1>> /\ c.cluster_members = <<>>)}

-----------------------------------------------------------------------------
(* One iteration of the strategy loop, lines 395-545 *)

\* the payload mode _azure_chat_completion selects for a strategy (lines 587-595)
Mode(st) ==
    IF st.use_json_mode /\ ~st.use_function_calling THEN "json_mode"
    ELSE IF st.use_function_calling THEN "function_calling"
    ELSE "plain"

\* exit: how the iteration ends; handler: the except clause that ran
Outcome(exit, rows, path, exc) ==
    [exit |-> exit, rows |-> rows, path |-> path, exc |-> exc,
     handler |-> IF exc = "none" THEN "none"
                 ELSE IF exc \in {"JSONDecodeError", "ValidationError"} THEN "inner"
                 ELSE "outer"]

\* mutant: the outer handler catches transport errors only
OuterCatchesTransportOnly(exc) == exc = "HTTPError"

\* `except Exception as e` of the outer try (lines 541-545)
OuterCatches(exc) == TRUE

\* mutant: an exception in any strategy ends the loop
OuterHandlerGivesUp(k, exc) ==
    IF ~OuterCatches(exc) THEN Outcome("raise", <<>>, "none", exc)
    ELSE Outcome("break", <<>>, "none", exc)

OuterHandler(k, exc) ==
    IF ~OuterCatches(exc) THEN Outcome("raise", <<>>, "none", exc)
    ELSE IF k = NumStrategies THEN Outcome("break", <<>>, "none", exc)
    ELSE Outcome("continue", <<>>, "none", exc)

\* `except (json.JSONDecodeError, ValidationError) as e` (lines 473-540)
InnerHandler(k, exc, content, raw, c) ==
    LET Recover(recovered) ==
            IF k = NumStrategies /\ recovered # <<>>
            THEN Outcome("return", recovered, "regex", exc)
            ELSE Outcome("continue", <<>>, "none", exc)
        Clean(cleaned) ==
            IF /\ exc = "ValidationError"
               /\ k < NumStrategies
               /\ cleaned.shape = "rows"
               /\ ExtractionResponse(cleaned) = "ok"
            THEN Outcome("return", CleanedRows(cleaned.rows, c.text), "cleaned", exc)
            ELSE Recover(RegexRows(content, c.text))
    IN  Clean(_clean_raw_data_for_validation(raw))

\* lines 400-408: the text the strategy reads from the response
SelectContent(k, d) ==
    IF strategies[k].use_function_calling /\ d.fcall.k = "text" THEN d.fcall
    ELSE d.content

\* lines 447-448
ApplyWhitelist(raw, c) ==
    IF c.enforce /\ raw.shape = "rows" THEN [raw EXCEPT !.rows = _filter_rows(raw.rows, c)]
    ELSE raw

AttemptOutcome(k, d, c) ==
    LET Except(exc, content, raw) ==
            IF exc \in {"JSONDecodeError", "ValidationError"}
            THEN InnerHandler(k, exc, content, raw, c)
            ELSE OuterHandler(k, exc)
        Validate(content, raw, v) ==
            IF v = "ok" THEN Outcome("return", DirectRows(raw.rows, c.text), "direct", "none")
            ELSE Except(v, content, raw)
        Load(content, parsed) ==
            IF ~parsed.ok THEN Except("JSONDecodeError", content, parsed)
            ELSE Validate(content, ApplyWhitelist(parsed, c),
                          ExtractionResponse(ApplyWhitelist(parsed, c)))
        Read(sel) ==
            IF sel.k = "null" THEN Except("AttributeError", <<>>, NoParse)
            ELSE Load(StripFences(sel.toks), JsonLoads(StripFences(sel.toks)))
    IN  IF d.kind = "raise" THEN Except(d.exc, <<>>, NoParse) ELSE Read(SelectContent(k, d))

\* rows of the schema-valid entries of a response that parsed as JSON with a
\* list of entries (after the whitelist filter when it is enforced)
SiblingRows(k, d, c) ==
    LET Valid(rows) == SelectSeq(rows, LAMBDA i : EntryValid(ItemPool[i]))
        Rows(rows) == {rows[j] : j \in 1..Len(rows)}
        Listed(parsed) ==
            IF ~parsed.ok \/ parsed.shape # "rows" THEN {}
            ELSE Rows(CleanedRows(Valid(ApplyWhitelist(parsed, c).rows), c.text))
    IN  IF d.kind = "raise" \/ SelectContent(k, d).k = "null" THEN {}
        ELSE Listed(JsonLoads(StripFences(SelectContent(k, d).toks)))

\* history: the rows the two recovery passes (lines 506-532) find in the text
\* of a response, whether or not the code runs them on it
RecoverableRows(k, d, c) ==
    IF d.kind = "raise" \/ SelectContent(k, d).k = "null" THEN <<>>
    ELSE RegexRows(StripFences(SelectContent(k, d).toks), c.text)

\* history: the log remembers at most one recoverable row of one response
Remembered(entries, rows) ==
    IF \E i \in 1..Len(entries) : entries[i].found # <<>> THEN {<<>>}
    ELSE {<<>>} \cup {<<rows[j]>> : j \in 1..Len(rows)}

-----------------------------------------------------------------------------
(* _detect_whitelist_candidates and the section loop of extract_rows_from_docx *)

DetectThreshold == 60

SnippetMax == 4000

ChunkSize == 30

SyntheticSummaryMax == 1000

\* the responses of the LLM to a call of the section loop
SectionResponses ==
    {Raised("HTTPError")} \cup {Content(TObj(xs)) : xs \in {<<>>, <<1>>, <<2>>}}

\* list(cluster_to_projects.keys())
Keys(cluster_to_projects) == [j \in 1..Len(cluster_to_projects) |-> cluster_to_projects[j].cluster]

\* {c: cluster_to_projects.get(c, []) for c in clusters}
MembersOf(clusters, cluster_to_projects) ==
    LET Get(c, hits) == IF hits = {} THEN <<>> ELSE cluster_to_projects[SetMin(hits)].members
    IN  [j \in 1..Len(clusters) |->
            [cluster |-> clusters[j],
             members |-> Get(clusters[j], {k \in 1..Len(cluster_to_projects) :
                                              cluster_to_projects[k].cluster = clusters[j]})]]

\* the elements of names whose lower-cased form no earlier element has
UniqueLower(names) == DedupBy(names, [k \in 1..Len(names) |-> lower(names[k])])

_detect_whitelist_candidates(section_text, project_names, cluster_to_projects) ==
    LET Detected(names, snippet) ==
            UniqueLower(SelectSeq(names, LAMBDA n :
                            ScoreAtLeast(token_set_ratio(n, snippet), DetectThreshold)))
        Both(snippet) ==
            [projects |-> Detected(project_names, snippet),
             clusters |-> Detected(Keys(cluster_to_projects), snippet)]
        Stripped(content) ==
            IF content = <<>> THEN [projects |-> <<>>, clusters |-> <<>>]
            ELSE Both(Prefix(content, SnippetMax))
    IN  Stripped(strip(section_text))

\* detected_projects + detected_clusters, lines 624-630 and 638
Combined(d, det) ==
    IF d.whitelist_enabled THEN det.projects \o det.clusters
    ELSE d.project_names_kb \o Keys(d.cluster_to_projects)

\* indices, lines 640-647, for n candidates
ChunkStarts(d, n) ==
    IF ~d.whitelist_enabled /\ ~d.chunk_all THEN <<0>>
    ELSE [k \in 1..((n + ChunkSize - 1) \div ChunkSize) |-> (k - 1) * ChunkSize]

\* the keyword arguments of the call for combined[start:start+K], lines 650-661
ChunkConfig(d, section, combined, start) ==
    LET Args(chunk) ==
            [text |-> section,
             whitelist_projects |->
                 SelectSeq(chunk, LAMBDA x : \E k \in 1..Len(d.project_names_kb) : d.project_names_kb[k] = x),
             cluster_members |->
                 MembersOf(SelectSeq(chunk, LAMBDA x : \E k \in 1..Len(d.cluster_to_projects) :
                                                         d.cluster_to_projects[k].cluster = x),
                           d.cluster_to_projects),
             enforce |-> d.whitelist_enabled,
             creds |-> TRUE]
    IN  Args(SubSeq(combined, start + 1,
                    IF start + ChunkSize <= Len(combined) THEN start + ChunkSize ELSE Len(combined)))

\* the keyword arguments of the call without whitelist, lines 698-705
PlainConfig(d, section) ==
    [text |-> section, whitelist_projects |-> <<>>, cluster_members |-> <<>>,
     enforce |-> d.whitelist_enabled, creds |-> TRUE]

\* the lists _extract_rows_from_text_core can return for the arguments c: the
\* rows of the first strategy that returns, or [] when none does
CoreReturns(c) ==
    LET Returned(outcomes) == {o.rows : o \in {x \in outcomes : x.exit = "return"}}
    IN  {<<>>} \cup Returned({AttemptOutcome(k, r, c) : k \in 1..NumStrategies, r \in SectionResponses})

\* the synthetic rows of lines 670-695
SyntheticRows(d, section, det_clusters) ==
    LET Rows(section_text, uniq_members) ==
            [j \in 1..Len(uniq_members) |->
                [project_name |-> uniq_members[j],
                 title        |-> Some(uniq_members[j] \o <<" ", "-", " ">> \o d.cw_label),
                 summary      |-> Prefix(section_text, SyntheticSummaryMax),
                 next_actions |-> NoneS,
                 owner        |-> NoneS,
                 category     |-> SomeC(d.category_from_filename),
                 source_text  |-> Some(section_text)]]
        Members(found) == Flatten([j \in 1..Len(found) |-> found[j].members])
    IN  Rows(strip(section), UniqueLower(Members(MembersOf(det_clusters, d.cluster_to_projects))))

-----------------------------------------------------------------------------
(* Inputs of extract_rows_from_docx *)

TordesillasA2 == <<"T","o","r","d","e","s","i","l","l","a","s"," ","A","2">>

TORDESILLAS == <<"T","O","R","D","E","S","I","L","L","A","S">>

CW02 == <<"C","W","0","2">>

\* project_names_kb and cluster_to_projects of test_cluster_only_expands_to_all_members
KBTest ==
    [project_names_kb |-> <<DivorPV1, DivorPV2, TordesillasA2>>,
     cluster_to_projects |-> <<[cluster |-> ClusterMadrid, members |-> <<DivorPV1, DivorPV2>>]>>]

\* a knowledge base with a project name in capitals
KBCaps ==
    [project_names_kb |-> <<TORDESILLAS, DivorPV1>>,
     cluster_to_projects |-> <<[cluster |-> ClusterMadrid, members |-> <<TORDESILLAS, DivorPV1>>]>>]

\* a knowledge base with more projects than one chunk holds: Q01, Q02, ...
KBLarge ==
    LET Digit == <<"0","1","2","3","4","5","6","7","8","9">>
        Name(k) == <<"Q", Digit[(k \div 10) + 1], Digit[(k % 10) + 1]>>
    IN  [project_names_kb |-> [k \in 1..(ChunkSize + 1) |-> Name(k)],
         cluster_to_projects |-> <<[cluster |-> ClusterMadrid, members |-> <<Name(1), Name(2)>>]>>]

\* a knowledge base with a cluster that bears the name of one of its projects
KBShared ==
    [project_names_kb |-> SubSeq(KBLarge.project_names_kb, 1, ChunkSize),
     cluster_to_projects |-> <<[cluster |-> KBLarge.project_names_kb[1],
                               members |-> <<KBLarge.project_names_kb[1]>>]>>]

SectionPool ==
    <<<<" ","C","l","u","s","t","e","r"," ","M","a","d","r","i","d"," ","u","p","d","a","t","e","\n">>,
      <<"D","i","v","o","r"," ","P","V","1"," ","a","n","d"," ","C","l","u","s","t","e","r"," ","M","a","d","r","i","d">>,
      <<"N","o","t","h","i","n","g"," ","h","e","r","e">>>>

\* the documents: at most MaxSections sections
Docs ==
    {[project_names_kb |-> kb.project_names_kb,
      cluster_to_projects |-> kb.cluster_to_projects,
      whitelist_enabled |-> we,
      chunk_all |-> ca,
      sections |-> [j \in 1..Len(ss) |-> SectionPool[ss[j]]],
      cw_label |-> CW02,
      category_from_filename |-> "EPC"] :
        kb \in {KBTest, KBCaps, KBLarge, KBShared}, we \in BOOLEAN, ca \in BOOLEAN,
        ss \in UNION {[1..n -> 1..Len(SectionPool)] : n \in 1..MaxSections}}

-----------------------------------------------------------------------------
(* Inputs of _postprocess_and_expand_entries *)

LongSummary == <<"y", " ">> \o Rep("x", DedupPrefix - 1)

LongSummarySpaced == <<"y", " ", " ">> \o Rep("x", DedupPrefix - 1)

PostRow(name, title, summary, source_text) ==
    [project_name |-> name, title |-> title, summary |-> summary, next_actions |-> NoneS,
     owner |-> NoneS, category |-> SomeC("EPC"), source_text |-> source_text]

PostRowPool ==
    <<PostRow(DivorPV1, NoneS, <<"o","k">>, NoneS),
      PostRow(<<"D","i","v","o","r"," ","P","V","1","+","2">>, Some(<<"D","i","v","o","r"," ","P","V","1","+","2"," ","-"," ","C","W","0","2">>), <<"o","k">>, NoneS),
      PostRow(<<"(","S","p","a","i","n",")"," ","D","i","v","o","r","_","P","V","1"," ","5","0","M","W">>, NoneS, <<"o","k">>, NoneS),
      PostRow(<<"X"," ","5","_","5","M","W","_","M","W">>, NoneS, <<"o","k">>, NoneS),
      PostRow(<<"A","l","p","h","a"," ","1","+","2">>, NoneS, <<"o","k">>, NoneS),
      PostRow(TORDESILLAS, NoneS, <<"o","k">>, NoneS),
      PostRow(DivorPV1, NoneS, LongSummary, Some(LongSummary)),
      PostRow(DivorPV1, NoneS, LongSummarySpaced, Some(LongSummary)),
      PostRow(<<"d","i","v","o","r"," "," ","p","v","1">>, Some(<<>>), <<"O","K"," ">>, Some(<<>>)),
      PostRow(<<"D","i","v","o","r"," ","P","V","1"," ","(","p","h","a","s","e"," ","2",")"," ","1","5","3","D","6","F","0">>, NoneS, <<"o","k">>, NoneS)>>

\* the row lists handed to the post-processor: at most MaxRows rows
PostRowLists ==
    {[j \in 1..Len(xs) |-> PostRowPool[xs[j]]] :
        xs \in UNION {[1..n -> 1..Len(PostRowPool)] : n \in 0..MaxRows}}

PostDocs ==
    {[project_names_kb |-> names,
      cluster_to_projects |-> <<>>,
      whitelist_enabled |-> FALSE,
      chunk_all |-> FALSE,
      sections |-> <<>>,
      cw_label |-> CW02,
      category_from_filename |-> "EPC"] :
        names \in {<<>>, KBTest.project_names_kb, KBCaps.project_names_kb}}

-----------------------------------------------------------------------------
(* _extract_rows_from_text_core as a state machine *)

Init ==
    /\ pc = "call"
    /\ attempt = 1
    /\ cfg \in Configs
    /\ data = NoData
    /\ log = <<>>
    /\ result = <<>>
    /\ escaped = "none"
    /\ sibling = <<>>
    /\ doc = <<>>
    /\ idx = 1
    /\ pending = <<>>
    /\ section_rows_added = FALSE
    /\ added = <<>>
    /\ all_rows = <<>>
    /\ returned = <<>>
    /\ again = <<>>
    /\ sent = <<>>
    /\ IdleAux
    /\ IdleEnv

\* line 398: data = _azure_chat_completion(messages, **strategy)
CallStrategy ==
    /\ pc = "call"
    /\ \E d \in Responses :
          data' = IF cfg.creds THEN d ELSE Raised("RuntimeError")
    /\ log' = Append(log, [mode |-> Mode(strategies[attempt]), exit |-> "pending",
                           path |-> "none", handler |-> "none", found |-> <<>>])
    /\ pc' = "process"
    /\ UNCHANGED <<attempt, cfg, result, escaped, sibling, docvars, auxvars, envvars>>

\* lines 400-545: the rest of the loop body
ProcessResponse ==
    /\ pc = "process"
    /\ \E o \in {AttemptOutcome(attempt, data, cfg)}, found \in Remembered(log, RecoverableRows(attempt, data, cfg)) :
           /\ log' = [log EXCEPT ![Len(log)] =
                        [mode |-> @.mode, exit |-> o.exit, path |-> o.path, handler |-> o.handler,
                         found |-> found]]
           /\ \/ o.exit = "return" /\ result' = o.rows /\ pc' = "done"
                 /\ UNCHANGED <<attempt, escaped>>
              \/ o.exit = "raise" /\ escaped' = o.exc /\ pc' = "done"
                 /\ UNCHANGED <<attempt, result>>
              \/ o.exit = "continue" /\ attempt < NumStrategies /\ attempt' = attempt + 1
                 /\ pc' = "call" /\ UNCHANGED <<result, escaped>>
              \/ (o.exit = "break" \/ (o.exit = "continue" /\ attempt = NumStrategies))
                 /\ pc' = "exhausted" /\ UNCHANGED <<attempt, result, escaped>>
    /\ \E r \in (IF sibling = <<>> THEN {<<>>} \cup {<<x>> : x \in SiblingRows(attempt, data, cfg)} ELSE {sibling}) :
          sibling' = r
    /\ data' = NoData
    /\ UNCHANGED <<cfg, docvars, auxvars, envvars>>

\* lines 547-548: return []
ReturnEmpty ==
    /\ pc = "exhausted"
    /\ result' = <<>>
    /\ pc' = "done"
    /\ UNCHANGED <<attempt, cfg, data, log, escaped, sibling, docvars, auxvars, envvars>>

Next == CallStrategy \/ ProcessResponse \/ ReturnEmpty

Spec == Init /\ [][Next]_vars

-----------------------------------------------------------------------------
(* extract_rows_from_docx as a state machine *)

IdleCore ==
    /\ attempt = 1
    /\ cfg = <<>>
    /\ data = NoData
    /\ log = <<>>
    /\ result = <<>>
    /\ escaped = "none"
    /\ sibling = <<>>

InitDocx ==
    /\ pc = "section"
    /\ doc \in Docs
    /\ idx = 1
    /\ pending = <<>>
    /\ section_rows_added = FALSE
    /\ added = <<>>
    /\ all_rows = <<>>
    /\ returned = <<>>
    /\ again = <<>>
    /\ sent = <<>>
    /\ IdleAux
    /\ IdleEnv
    /\ IdleCore

\* det_projects, det_clusters of line 622 for the current section
Detection == _detect_whitelist_candidates(doc.sections[idx], doc.project_names_kb, doc.cluster_to_projects)

\* lines 620-647: detection and the chunk plan of sections[idx]
StartSection ==
    /\ pc = "section"
    /\ \E combined \in {Combined(doc, Detection)} :
          IF combined # <<>>
          THEN pending' = ChunkStarts(doc, Len(combined)) /\ pc' = "chunk"
          ELSE pending' = <<>> /\ pc' = "plain"
    /\ section_rows_added' = FALSE
    /\ UNCHANGED <<doc, idx, added, all_rows, returned, again, sent, corevars, auxvars, envvars>>

\* lines 648-667: the call for one chunk
CallChunk ==
    /\ pc = "chunk"
    /\ pending # <<>>
    /\ \E c \in {ChunkConfig(doc, doc.sections[idx], Combined(doc, Detection), Head(pending))} :
          /\ sent' = Append(sent, [section |-> idx, projects |-> c.whitelist_projects,
                                   clusters |-> Keys(c.cluster_members)])
          /\ \E rows \in CoreReturns(c) :
                /\ all_rows' = all_rows \o rows
                /\ section_rows_added' = (section_rows_added \/ rows # <<>>)
    /\ pending' = Tail(pending)
    /\ UNCHANGED <<pc, doc, idx, added, returned, again, corevars, auxvars, envvars>>

\* lines 668-695: the fallback, and the end of the loop body
EndSection ==
    /\ pc = "chunk"
    /\ pending = <<>>
    /\ \E det \in {Detection} :
          all_rows' = IF /\ (det.projects # <<>> \/ det.clusters # <<>>)
                         /\ ~section_rows_added
                         /\ det.clusters # <<>>
                      THEN all_rows \o SyntheticRows(doc, doc.sections[idx], det.clusters)
                      ELSE all_rows
    /\ added' = Append(added, section_rows_added)
    /\ idx' = idx + 1
    /\ pc' = IF idx = Len(doc.sections) THEN "post" ELSE "section"
    /\ UNCHANGED <<doc, pending, section_rows_added, returned, again, sent, corevars, auxvars, envvars>>

\* lines 696-707: nothing detected, one call without whitelist
CallPlain ==
    /\ pc = "plain"
    /\ \E rows \in CoreReturns(PlainConfig(doc, doc.sections[idx])) :
          /\ all_rows' = all_rows \o rows
          /\ added' = Append(added, rows # <<>>)
    /\ idx' = idx + 1
    /\ pc' = IF idx = Len(doc.sections) THEN "post" ELSE "section"
    /\ sent' = Append(sent, [section |-> idx, projects |-> <<>>, clusters |-> <<>>])
    /\ UNCHANGED <<doc, pending, section_rows_added, returned, again, corevars, auxvars, envvars>>

\* line 708: return _postprocess_and_expand_entries(all_rows, project_names_kb)
Postprocess ==
    /\ pc = "post"
    /\ returned' = _postprocess_and_expand_entries(all_rows, doc.project_names_kb)
    /\ pc' = "returned"
    /\ UNCHANGED <<doc, idx, pending, section_rows_added, added, all_rows, again, sent, corevars, auxvars, envvars>>

NextDocx == StartSection \/ CallChunk \/ EndSection \/ CallPlain \/ Postprocess

SpecDocx == InitDocx /\ [][NextDocx]_vars

-----------------------------------------------------------------------------
(* _postprocess_and_expand_entries applied to a row list, then to its own     *)
(* output                                                                     *)

InitPost ==
    /\ pc = "post"
    /\ doc \in PostDocs
    /\ idx = 1
    /\ pending = <<>>
    /\ section_rows_added = FALSE
    /\ added = <<>>
    /\ all_rows \in PostRowLists
    /\ returned = <<>>
    /\ again = <<>>
    /\ sent = <<>>
    /\ IdleAux
    /\ IdleEnv
    /\ IdleCore

Reapply ==
    /\ pc = "returned"
    /\ again' = _postprocess_and_expand_entries(returned, doc.project_names_kb)
    /\ pc' = "reapplied"
    /\ UNCHANGED <<doc, idx, pending, section_rows_added, added, all_rows, returned, sent, corevars, auxvars, envvars>>

NextPost == Postprocess \/ Reapply

SpecPost == InitPost /\ [][NextPost]_vars

-----------------------------------------------------------------------------
(* _safe_truncate_text *)

CharsPerToken == 4

\* the share of the budget a paragraph or sentence cut has to keep: 0.7
KeepNum == 7

KeepDen == 10

\* str.rfind(sub): 0-based index of the last occurrence, -1 without one
rfind(s, sub) ==
    LET At(hits) == IF hits = {} THEN -1 ELSE CHOOSE i \in hits : \A j \in hits : j <= i
    IN  At({i \in 0..(Len(s) - Len(sub)) : SubSeq(s, i + 1, i + Len(sub)) = sub})

_safe_truncate_text(text, max_tokens) ==
    LET estimated_chars == max_tokens * CharsPerToken
        Max(a, b) == IF a >= b THEN a ELSE b
        Word(truncated, last_space) ==
            IF last_space > 0 THEN SubSeq(truncated, 1, last_space) ELSE truncated
        Sentence(truncated, last_sentence) ==
            IF KeepDen * last_sentence > KeepNum * estimated_chars
            THEN SubSeq(truncated, 1, last_sentence + 1)
            ELSE Word(truncated, rfind(truncated, <<" ">>))
        Paragraph(truncated, last_para) ==
            IF KeepDen * last_para > KeepNum * estimated_chars
            THEN SubSeq(truncated, 1, last_para)
            ELSE Sentence(truncated, Max(Max(rfind(truncated, <<".">>), rfind(truncated, <<"!">>)),
                                         rfind(truncated, <<"?">>)))
        Cut(truncated) == Paragraph(truncated, rfind(truncated, <<"\n", "\n">>))
    IN  IF Len(text) <= estimated_chars THEN text ELSE Cut(SubSeq(text, 1, estimated_chars))

\* the pieces the input texts are made of
TextPieces == <<<<"a", "b">>, <<" ">>, <<".">>, <<"\n", "\n">>>>

\* texts of at most n pieces
Texts(n) ==
    {Flatten([j \in 1..Len(ps) |-> TextPieces[ps[j]]]) :
        ps \in UNION {[1..k -> 1..Len(TextPieces)] : k \in 0..n}}

TruncateArgs == [fn : {"_safe_truncate_text"}, text : Texts(MaxPieces), max_tokens : 0..MaxTokens]

-----------------------------------------------------------------------------
(* _split_into_sections *)

HeadingMin == 4

\* str.split(sep) for a one-character separator
split(s, sep) ==
    LET Between(cuts) == [k \in 1..(Len(cuts) - 1) |-> SubSeq(s, cuts[k] + 1, cuts[k + 1] - 1)]
    IN  Between(<<0>> \o SelectAt([i \in 1..Len(s) |-> i], {i \in 1..Len(s) : s[i] = sep})
                     \o <<Len(s) + 1>>)

\* "\n".join(lines)
JoinLines(lines) ==
    Flatten([k \in 1..Len(lines) |-> IF k = 1 THEN lines[k] ELSE <<"\n">> \o lines[k]])

\* str.rstrip()
rstrip(s) ==
    LET UpTo(keep) == IF keep = {} THEN <<>>
                      ELSE SubSeq(s, 1, CHOOSE i \in keep : \A j \in keep : j <= i)
    IN  UpTo({i \in 1..Len(s) : s[i] \notin Whitespace})

_clean_text(s) ==
    LET Collapse(t) == SelectAt(t, {i \in 1..Len(t) : ~(t[i] = "\n" /\ i > 1 /\ t[i - 1] = "\n")})
    IN  strip(Collapse([i \in 1..Len(s) |-> IF s[i] = "\r" THEN "\n" ELSE s[i]]))

\* is_country or is_upper of the line, lines 269-270 and 275-276
StrongBoundary(line) ==
    \/ /\ Len(line) >= HeadingMin
       /\ \E i \in 1..Len(line) : IsUpper(line[i])
       /\ \A i \in 1..Len(line) : \A k \in 1..Len(LowerChars) : line[i] # LowerChars[k]
    \/ /\ Len(line) >= 1
       /\ line[1] = "("
       /\ \E j \in 3..(Len(line) - 1) :
             /\ line[j] = ")"
             /\ \A k \in 2..(j - 1) : line[k] # ")"
             /\ line[j + 1] \in Whitespace

\* mutant: an oversized blob is appended whole
ChunksUnsliced(blob, max_chars) == <<blob>>

\* the sections push_current appends for a non-empty blob, lines 253-257
Chunks(blob, max_chars) ==
    IF Len(blob) <= max_chars THEN <<blob>>
    ELSE [k \in 1..((Len(blob) + max_chars - 1) \div max_chars) |->
             SubSeq(blob, (k - 1) * max_chars + 1,
                    IF k * max_chars <= Len(blob) THEN k * max_chars ELSE Len(blob))]

\* sections after push_current(), lines 247-258
push_current(sections, current, max_chars) ==
    LET Blob(blob) == IF blob = <<>> THEN sections ELSE sections \o Chunks(blob, max_chars)
    IN  IF current = <<>> THEN sections ELSE Blob(_clean_text(JoinLines(current)))

\* the loop of lines 273-287 from line k on
RECURSIVE SplitLoop(_, _, _, _, _)
SplitLoop(lines, k, sections, current, max_chars) ==
    LET Step(line) ==
            IF StrongBoundary(line)
            THEN [sections |-> push_current(sections, current, max_chars), current |-> <<line>>]
            ELSE IF strip(line) = <<>>
            THEN [sections |-> push_current(sections, current, max_chars), current |-> <<>>]
            ELSE [sections |-> sections, current |-> Append(current, line)]
    IN  IF k > Len(lines) THEN push_current(sections, current, max_chars)
        ELSE CHOOSE out \in {SplitLoop(lines, k + 1, st.sections, st.current, max_chars) :
                                st \in {Step(rstrip(lines[k]))}} : TRUE

_split_into_sections(text, max_chars) ==
    LET Solo(solo) == IF solo = <<>> THEN <<>> ELSE <<solo>>
        Sections(lines) ==
            IF \E k \in 1..Len(lines) : StrongBoundary(rstrip(lines[k]))
            THEN SplitLoop(lines, 1, <<>>, <<>>, max_chars)
            ELSE Solo(_clean_text(JoinLines(lines)))
    IN  IF text = <<>> THEN <<>> ELSE Sections(split(text, "\n"))

\* the lines the input texts are made of
LinePool == <<<<"a", "b">>, <<"A", "B", "C", "D">>, <<"(", "S", ")", " ", "x">>, <<>>,
              <<"a", "b", "c", "d", "e", "f", "g">>, <<" ">>, <<"A", "B", " ">>>>

SplitArgs ==
    [fn : {"_split_into_sections"},
     text : {JoinLines([j \in 1..Len(ls) |-> LinePool[ls[j]]]) :
                ls \in UNION {[1..k -> 1..Len(LinePool)] : k \in 0..MaxLines}},
     max_chars : {3, 6}]

-----------------------------------------------------------------------------
(* The token budget of _azure_chat_completion.  A message is given by the    *)
(* length of its content.                                                     *)

MinResponseTokens == 1000

\* len(text) // 4
_estimate_tokens(length) == length \div CharsPerToken

RECURSIVE Sum(_)
Sum(xs) == IF xs = <<>> THEN 0 ELSE Head(xs) + Sum(Tail(xs))

\* input_tokens and max_tokens of lines 568-574
TokenAllocation(lengths, limits) ==
    LET Min(a, b) == IF a <= b THEN a ELSE b
        Max(a, b) == IF a >= b THEN a ELSE b
        Allocate(input_tokens, available_tokens) ==
            [input_tokens |-> input_tokens,
             max_tokens |-> Min(Max(available_tokens, MinResponseTokens), limits.max_output)]
        Available(input_tokens) ==
            Allocate(input_tokens, limits.max_context - input_tokens - limits.safety_buffer)
    IN  Available(Sum([k \in 1..Len(lengths) |-> _estimate_tokens(lengths[k])]))

\* the defaults of _get_token_limits and other settings of the knobs
TokenLimits ==
    [max_context : {4000, 8000}, max_input : {3500}, max_output : {500, 4000},
     safety_buffer : {0, 500}]

\* system and user message: content lengths in characters
BudgetArgs ==
    [fn : {"_azure_chat_completion"},
     lengths : {0, 1203, 4000} \X {0, 7, 14000, 26000},
     limits : TokenLimits]

-----------------------------------------------------------------------------
(* The deterministic parser of utils.py: parse_docx_rows and the section      *)
(* finder _identify_project_sections.  Positions are 0-based as in the code.  *)

\* str.isalnum() of one character of the input texts
IsAlnum(c) == c \in WordChars \ {"_"}

_is_valid_project_match(text, pos, length) ==
    /\ pos > 0 => ~IsAlnum(lower(text)[pos])
    /\ pos + length < Len(text) => ~IsAlnum(lower(text)[pos + length + 1])

\* the loop `pos = text_lower.find(name_lower, start); start = pos + 1` with
\* the check of _is_valid_project_match: the accepted positions in order
ValidFinds(full_text, name_lower) ==
    SelectAt([i \in 1..Len(full_text) |-> i - 1],
             {i \in 1..Len(full_text) :
                /\ HasAt(full_text, i, name_lower)
                /\ _is_valid_project_match(full_text, i - 1, Len(name_lower))})

\* the list project_patterns of _find_project_patterns_in_text
ProjectPatterns ==
    <<<<"t","a","u","r","u","s"," ","a","-","1">>, <<"t","a","u","r","u","s"," ","a","-","2">>,
      <<"t","a","u","r","u","s"," ","a","-","3">>,
      <<"p","e","ñ","a","f","l","o","r">>, <<"m","u","d","e","j","a","r">>,
      <<"a","n","d","u","j","a","r">>, <<"a","l","m","o","d","o","v","a","r">>,
      <<"h","e","r","m","a","n","n">>, <<"c","a","r","m","o","n","a">>,
      <<"b","r","o","v","a","l","e","s">>, <<"c","a","b","r","o","v","a","l","e","s">>,
      <<"t","o","r","d","e","s","i","l","l","a","s">>,
      <<"z","a","r","a","t","a","n","_","b","e","s","s">>, <<"d","i","v","o","r">>>>

\* Every match of country_pattern (line 391) starts with "(" and every match
\* of standalone_pattern (line 402) ends with ":"; the function is given for
\* the texts that hold neither character, where the two finditer loops find
\* nothing.
_find_project_patterns_in_text(full_text, project_names) ==
    LET Hits(pattern) ==
            [k \in 1..Len(ValidFinds(full_text, pattern)) |->
                [pos |-> ValidFinds(full_text, pattern)[k],
                 name |-> SubSeq(full_text, ValidFinds(full_text, pattern)[k] + 1,
                                 ValidFinds(full_text, pattern)[k] + Len(pattern))]]
    IN  CASE \A i \in 1..Len(full_text) : full_text[i] \notin {"(", ":"} ->
                Flatten([p \in 1..Len(ProjectPatterns) |-> Hits(ProjectPatterns[p])])

\* Each of the four patterns of lines 331-341 starts with "\(([^)]+)\)"; the
\* function is given for the texts without "(", where no pattern matches.
_find_special_format_projects(full_text) ==
    CASE \A i \in 1..Len(full_text) : full_text[i] # "(" -> <<>>

\* list.sort(key=lambda x: x[0]): stable
RECURSIVE SortByPos(_)
SortByPos(xs) ==
    IF xs = <<>> THEN <<>>
    ELSE LET Split(m) == SelectAt(xs, {j \in 1..Len(xs) : xs[j].pos = m})
                            \o SortByPos(SelectAt(xs, {j \in 1..Len(xs) : xs[j].pos # m}))
         IN  Split(SetMin({xs[j].pos : j \in 1..Len(xs)}))

\* lines 267-268.  The first re.sub removes a capacity suffix that ends in an
\* upper-case unit (MW, MVA, ...) from name.lower(): it matches only where the
\* lowered name holds an "M".
NormalizedName(name) ==
    CASE \A i \in 1..Len(name) : lower(name)[i] # "M" ->
            strip(ReplaceRuns(strip(lower(name)), Whitespace))

\* lines 228-274: the mentions in document order, one per normalized name.
\* project_names is the set in the order its iteration yields.
UniquePositions(all_lines, project_names) ==
    LET full_text == JoinLines(all_lines)
        Exact(name) == [k \in 1..Len(ValidFinds(full_text, lower(name))) |->
                            [pos |-> ValidFinds(full_text, lower(name))[k], name |-> name]]
        Dedup(sorted) == DedupBy(sorted, [j \in 1..Len(sorted) |-> NormalizedName(sorted[j].name)])
    IN  Dedup(SortByPos(Flatten([n \in 1..Len(project_names) |-> Exact(project_names[n])])
                          \o _find_project_patterns_in_text(full_text, project_names)
                          \o _find_special_format_projects(full_text)))

_identify_project_sections(all_lines, project_names) ==
    LET full_text == JoinLines(all_lines)
        Segments(unique_positions) ==
            [i \in 1..Len(unique_positions) |->
                [name |-> unique_positions[i].name,
                 text |-> strip(SubSeq(full_text, unique_positions[i].pos + 1,
                                       IF i + 1 <= Len(unique_positions)
                                       THEN unique_positions[i + 1].pos
                                       ELSE Len(full_text)))]]
        NonEmpty(projects) == SelectAt(projects, {i \in 1..Len(projects) : projects[i].text # <<>>})
    IN  NonEmpty(Segments(UniquePositions(all_lines, project_names)))

\* the known project names in the orders the iteration of the set can take
NameOrders ==
    {<<>>, <<<<"a","l","f","a"," ","p","v","1">>>>,
     <<<<"a","l","f","a">>, <<"a","l","f","a"," ","p","v","1">>>>,
     <<<<"a","l","f","a"," ","p","v","1">>, <<"a","l","f","a">>>>}

\* the stripped non-empty lines the documents are made of; the last one is
\* longer than the minimum gap of 80 characters
DocLinePool ==
    <<<<"D","i","v","o","r"," ","o","k">>, <<"c","a","r","m","o","n","a"," ","x">>,
      <<"A","l","f","a"," ","P","V","1"," ","y">>, <<"n","o","t","e">>,
      <<"H","e","r","m","a","n","n"," ">> \o Rep("z", 80)>>

DocLines == {[j \in 1..Len(ls) |-> DocLinePool[ls[j]]] :
                ls \in UNION {[1..k -> 1..Len(DocLinePool)] : k \in 0..MaxLines}}

IdentifyArgs == [fn : {"_identify_project_sections"}, all_lines : DocLines, project_names : NameOrders]

-----------------------------------------------------------------------------
(* An uploaded file.  `readable` says whether docx.Document can open it; body *)
(* is the sequence of its blocks in document order: a paragraph               *)
(* [kind |-> "p", text, list] or a table [kind |-> "t", rows].                *)

\* document.paragraphs / document.tables
BlocksOf(file, kind) == SelectAt(file.body, {i \in 1..Len(file.body) : file.body[i].kind = kind})

\* " | ".join(cells), in a one-element list, of the non-empty stripped cells
\* of one table row; the empty list when all are empty
RowLine(row) ==
    LET Joined(cells) ==
            IF cells = <<>> THEN <<>>
            ELSE <<Flatten([k \in 1..Len(cells) |->
                              IF k = 1 THEN cells[k] ELSE <<" ", "|", " ">> \o cells[k]])>>
        Stripped == [k \in 1..Len(row) |-> strip(row[k])]
    IN  Joined(SelectAt(Stripped, {k \in 1..Len(row) : Stripped[k] # <<>>}))

TableLines(rows) == Flatten([r \in 1..Len(rows) |-> RowLine(rows[r])])

\* lines 127-140 of parse_docx_rows: the paragraphs, then the tables
AllLines(file) ==
    LET Texts_(ps) == [i \in 1..Len(ps) |-> strip(ps[i].text)]
        NonEmpty(ts) == SelectAt(ts, {i \in 1..Len(ts) : ts[i] # <<>>})
        Tables(tbls) == Flatten([t \in 1..Len(tbls) |-> TableLines(tbls[t].rows)])
    IN  NonEmpty(Texts_(BlocksOf(file, "p"))) \o Tables(BlocksOf(file, "t"))

ReportRow(category, cw_label, title, summary) ==
    [category |-> category, entry_type |-> "Report", cw_label |-> cw_label, title |-> title,
     summary |-> summary, next_actions |-> NoneS, owner |-> NoneS, attachment_url |-> NoneS]

\* parse_docx_rows without the fallback row of lines 170-185
ParseDocxRowsNoFallback(file, cw_label, category, project_names) ==
    LET Rows(projects) ==
            [i \in 1..Len(projects) |->
                ReportRow(category, cw_label, Some(projects[i].name \o <<" ", "-", " ">> \o cw_label),
                          strip(projects[i].text))]
        WithText(projects) ==
            SelectAt(projects, {i \in 1..Len(projects) : strip(projects[i].text) # <<>>})
    IN  IF ~file.readable THEN <<ReportRow(category, cw_label, NoneS, <<>>)>>
        ELSE IF AllLines(file) = <<>> THEN <<ReportRow(category, cw_label, NoneS, <<>>)>>
        ELSE Rows(WithText(_identify_project_sections(AllLines(file), project_names)))

\* project_names is the set returned by _load_all_project_names, in the order
\* its iteration yields
parse_docx_rows(file, cw_label, category, project_names) ==
    LET Rows(projects) ==
            [i \in 1..Len(projects) |->
                ReportRow(category, cw_label, Some(projects[i].name \o <<" ", "-", " ">> \o cw_label),
                          strip(projects[i].text))]
        WithText(projects) ==
            SelectAt(projects, {i \in 1..Len(projects) : strip(projects[i].text) # <<>>})
        OrSummary(rows, all_lines) ==
            IF rows = <<>> THEN <<ReportRow(category, cw_label, NoneS, strip(JoinLines(all_lines)))>>
            ELSE rows
    IN  IF ~file.readable THEN <<ReportRow(category, cw_label, NoneS, <<>>)>>
        ELSE IF AllLines(file) = <<>> THEN <<ReportRow(category, cw_label, NoneS, <<>>)>>
        ELSE OrSummary(Rows(WithText(_identify_project_sections(AllLines(file), project_names))),
                       AllLines(file))

\* the starters of the tuple common_starters of _normalize_list_prefix that
\* are made of the characters of the input texts; the other five begin with a
\* bullet or a dash that no input text holds
CommonStarters ==
    <<<<"-", " ">>, <<"*", " ">>, <<"1", ".", " ">>, <<"a", ")", " ">>, <<"(", "1", ")", " ">>>>

\* str.lstrip()
lstrip(s) ==
    LET From(keep) == IF keep = {} THEN <<>> ELSE SubSeq(s, SetMin(keep), Len(s))
    IN  From({i \in 1..Len(s) : s[i] \notin Whitespace})

_normalize_list_prefix(text) ==
    IF text = <<>> THEN text
    ELSE IF \E k \in 1..Len(CommonStarters) :
                /\ Len(CommonStarters[k]) <= Len(lstrip(text))
                /\ SubSeq(lstrip(text), 1, Len(CommonStarters[k])) = CommonStarters[k]
    THEN text
    ELSE <<"-", " ">> \o text

\* _load_doc_text of a file docx.Document can open, without header and footer
_load_doc_text(file) ==
    LET Part(block) ==
            IF block.kind = "p"
            THEN (IF strip(block.text) = <<>> THEN << <<>> >>
                  ELSE IF block.list THEN <<_normalize_list_prefix(strip(block.text))>>
                  ELSE <<strip(block.text)>>)
            ELSE TableLines(block.rows)
    IN  strip(JoinLines(Flatten([i \in 1..Len(file.body) |-> Part(file.body[i])])))

\* the blocks the files are made of
BlockPool ==
    <<[kind |-> "p", text |-> <<"D","i","v","o","r"," ","o","k">>, list |-> FALSE],
      [kind |-> "p", text |-> <<" ","c","a","r","m","o","n","a"," ","x"," ">>, list |-> TRUE],
      [kind |-> "p", text |-> <<" ", " ">>, list |-> FALSE],
      [kind |-> "p", text |-> <<"-"," ","n","o","t","e">>, list |-> TRUE],
      [kind |-> "t", rows |-> <<<<<<"A","l","f","a"," ","P","V","1">>, <<" ">>, <<"y">>>>, <<<<>>, <<>>>>>>]>>

Files ==
    {[readable |-> FALSE, body |-> <<>>]} \cup
    {[readable |-> TRUE, body |-> [j \in 1..Len(bs) |-> BlockPool[bs[j]]]] :
        bs \in UNION {[1..k -> 1..Len(BlockPool)] : k \in 0..MaxBlocks}}

ParseArgs ==
    [fn : {"parse_docx_rows"}, file : Files, cw_label : {CW02}, category : {"EPC"},
     project_names : NameOrders]

LoadArgs == [fn : {"extract_rows_from_docx"}, file : Files]

-----------------------------------------------------------------------------
(* Calls of the functions without state *)

PureArgs == TruncateArgs \cup SplitArgs \cup BudgetArgs \cup IdentifyArgs \cup ParseArgs
                \cup LoadArgs

IdleDocx ==
    /\ doc = <<>>
    /\ idx = 1
    /\ pending = <<>>
    /\ section_rows_added = FALSE
    /\ added = <<>>
    /\ all_rows = <<>>
    /\ returned = <<>>
    /\ again = <<>>
    /\ sent = <<>>

InitPure ==
    /\ pc = "call"
    /\ arg \in PureArgs
    /\ ret = <<>>
    /\ IdleCore
    /\ IdleDocx
    /\ IdleEnv

SafeTruncate ==
    /\ pc = "call"
    /\ arg.fn = "_safe_truncate_text"
    /\ ret' = _safe_truncate_text(arg.text, arg.max_tokens)
    /\ pc' = "return"
    /\ UNCHANGED <<arg, corevars, docvars, envvars>>

SplitIntoSections ==
    /\ pc = "call"
    /\ arg.fn = "_split_into_sections"
    /\ ret' = _split_into_sections(arg.text, arg.max_chars)
    /\ pc' = "return"
    /\ UNCHANGED <<arg, corevars, docvars, envvars>>

\* lines 567-576 of _azure_chat_completion, called without max_tokens
AllocateTokens ==
    /\ pc = "call"
    /\ arg.fn = "_azure_chat_completion"
    /\ ret' = TokenAllocation(arg.lengths, arg.limits)
    /\ pc' = "return"
    /\ UNCHANGED <<arg, corevars, docvars, envvars>>

IdentifyProjectSections ==
    /\ pc = "call"
    /\ arg.fn = "_identify_project_sections"
    /\ ret' = _identify_project_sections(arg.all_lines, arg.project_names)
    /\ pc' = "return"
    /\ UNCHANGED <<arg, corevars, docvars, envvars>>

ParseDocxRows ==
    /\ pc = "call"
    /\ arg.fn = "parse_docx_rows"
    /\ ret' = parse_docx_rows(arg.file, arg.cw_label, arg.category, arg.project_names)
    /\ pc' = "return"
    /\ UNCHANGED <<arg, corevars, docvars, envvars>>

\* line 609 of extract_rows_from_docx: the call of _load_doc_text, outside of
\* any try.  The exception of docx.Document for a file it cannot open leaves
\* extract_rows_from_docx.
LoadDocText ==
    /\ pc = "call"
    /\ arg.fn = "extract_rows_from_docx"
    /\ IF arg.file.readable
       THEN ret' = _load_doc_text(arg.file) /\ pc' = "loaded" /\ UNCHANGED escaped
       ELSE escaped' = "PackageNotFoundError" /\ pc' = "raised" /\ UNCHANGED ret
    /\ UNCHANGED <<arg, attempt, cfg, data, log, result, sibling, docvars, envvars>>

NextPure ==
    \/ SafeTruncate
    \/ SplitIntoSections
    \/ AllocateTokens
    \/ IdentifyProjectSections
    \/ ParseDocxRows
    \/ LoadDocText

SpecPure == InitPure /\ [][NextPure]_vars

-----------------------------------------------------------------------------
(* The knowledge base: _load_db_kb of llm_parser.py and                        *)
(* load_project_name_to_code_mapping of utils.py, called by the threads of    *)
(* the server while the projects table and data/project.csv change.           *)

Threads == {1, 2}

\* x or ""
OrEmpty(o) == IF o.isNone THEN <<>> ELSE o.val

\* the body of the loop of lines 911-918 for the rows the query returned
_load_db_kb(rows) ==
    LET Active == SelectAt(rows, {i \in 1..Len(rows) : rows[i].status = 1})
        Named(rs) == SelectAt(rs, {i \in 1..Len(rs) : strip(OrEmpty(rs[i].project_name)) # <<>>})
        Names(rs) == [i \in 1..Len(rs) |-> strip(OrEmpty(rs[i].project_name))]
        Clusters(rs) == [i \in 1..Len(rs) |-> strip(OrEmpty(rs[i].portfolio_cluster))]
        ByCluster(rs) ==
            [c \in {Clusters(rs)[i] : i \in 1..Len(rs)} \ {<<>>} |->
                SelectAt(Names(rs), {i \in 1..Len(rs) : Clusters(rs)[i] = c})]
    IN  [project_names |-> Names(Named(Active)), cluster_to_projects |-> ByCluster(Named(Active))]

\* the flat-file source of the knowledge base: the active rows of the file
_load_kb_from_csv(file) ==
    LET Active(rows) == SelectAt(rows, {i \in 1..Len(rows) :
                                      strip(OrEmpty(rows[i].status)) \in {<<"1">>, <<"t","r","u","e">>, <<"T","r","u","e">>}})
        AsDb(rows) == [i \in 1..Len(rows) |->
                          [project_name |-> rows[i].project_name,
                           portfolio_cluster |-> rows[i].portfolio_cluster, status |-> 1]]
    IN  IF file.exists THEN _load_db_kb(AsDb(Active(file.rows)))
        ELSE [project_names |-> <<>>, cluster_to_projects |-> <<>>]

\* lines 540-549 of load_project_name_to_code_mapping: one row of the reader
AddRow(mapping, row) ==
    LET code == strip(OrEmpty(row.project_code))
        name == strip(OrEmpty(row.project_name))
        status_str == strip(IF OrEmpty(row.status) = <<>> THEN <<"0">> ELSE row.status.val)
    IN  IF code = <<>> \/ name = <<>> THEN mapping
        ELSE IF status_str \notin {<<"1">>, <<"t","r","u","e">>, <<"T","r","u","e">>} THEN mapping
        ELSE [k \in DOMAIN mapping \cup {lower(name)} |-> IF k = lower(name) THEN code ELSE mapping[k]]

\* the global while the loop fills the local dict `mapping`, as if it were
\* the dict being filled
GlobalAfterRowInPlace(global, mapping) == Some(mapping)

\* the global while the loop fills the local dict `mapping`: line 549 writes
\* the local, the global is assigned at line 559 only
GlobalAfterRow(global, mapping) == global

\* the mapping of a whole file
RECURSIVE MappingOf(_, _)
MappingOf(rows, mapping) ==
    IF rows = <<>> THEN mapping
    ELSE CHOOSE m \in {MappingOf(Tail(rows), x) : x \in {AddRow(mapping, Head(rows))}} : TRUE

DbRow(name, cluster, status) == [project_name |-> name, portfolio_cluster |-> cluster, status |-> status]

CsvRow(code, name, cluster, status) ==
    [project_code |-> code, project_name |-> name, portfolio_cluster |-> cluster, status |-> status]

\* the states of the projects table
Dbs ==
    {[up |-> TRUE, rows |-> <<DbRow(Some(<<"A","b">>), Some(<<"K">>), 1), DbRow(Some(<<" ">>), Some(<<"K">>), 1),
                             DbRow(Some(<<"C","d"," ">>), NoneS, 1), DbRow(Some(<<"E","f">>), Some(<<"K">>), 0)>>],
     [up |-> TRUE, rows |-> <<DbRow(Some(<<"A","b">>), Some(<<"K">>), 1), DbRow(Some(<<"G","h">>), Some(<<"K">>), 1)>>],
     [up |-> FALSE, rows |-> <<>>]}

\* the states of data/project.csv
Csvs ==
    {[exists |-> FALSE, rows |-> <<>>],
     [exists |-> TRUE, rows |-> <<CsvRow(Some(<<"1">>), Some(<<"A","b">>), Some(<<"K">>), Some(<<"1">>)),
                                  CsvRow(Some(<<"2">>), Some(<<" ","C","d">>), NoneS, Some(<<"t","r","u","e">>)),
                                  CsvRow(NoneS, Some(<<"E","f">>), NoneS, Some(<<"1">>))>>],
     [exists |-> TRUE, rows |-> <<CsvRow(Some(<<"3">>), Some(<<"A","b">>), Some(<<"K">>), Some(<<"1">>)),
                                  CsvRow(Some(<<"4">>), Some(<<"G","h">>), Some(<<"K">>), NoneS),
                                  CsvRow(Some(<<"5">>), Some(<<"I","j">>), Some(<<"K">>), Some(<<"1">>))>>]}

IdleThread ==
    [pc |-> "idle", fn |-> "none", force_reload |-> FALSE, rows |-> <<>>, mapping |-> <<>>,
     out |-> <<>>, cached |-> FALSE, overlapped |-> FALSE]

InitKB ==
    /\ pc = "serve"
    /\ db \in Dbs
    /\ csvfile \in Csvs
    /\ cache = NoneS
    /\ thr = [t \in Threads |-> IdleThread]
    /\ loaded = NoneS
    /\ IdleTasks
    /\ IdleSvc
    /\ IdleAux
    /\ IdleCore
    /\ IdleDocx

\* _load_db_kb, called at line 614 of extract_rows_from_docx
LoadDbKb(t) ==
    /\ thr[t].pc = "idle"
    /\ \E kb \in {IF db.up THEN _load_db_kb(db.rows) ELSE _load_kb_from_csv(csvfile)} :
          /\ thr' = [thr EXCEPT ![t] = [IdleThread EXCEPT !.pc = "done", !.fn = "_load_db_kb", !.out = kb]]
          /\ loaded' = IF loaded.isNone THEN Some(kb) ELSE loaded
    /\ UNCHANGED <<pc, db, csvfile, cache, taskvars, svcvars, corevars, docvars, auxvars>>

\* lines 526-533 of load_project_name_to_code_mapping, up to the open of the
\* file
LoadMapping(t, force_reload) ==
    /\ thr[t].pc = "idle"
    /\ \E call \in {[IdleThread EXCEPT !.fn = "load_project_name_to_code_mapping",
                                       !.force_reload = force_reload]} :
          IF ~cache.isNone /\ ~force_reload
          THEN /\ thr' = [thr EXCEPT ![t] = [call EXCEPT !.pc = "done", !.out = cache.val, !.cached = TRUE,
                            !.overlapped = \E u \in Threads : thr[u].pc = "rows" /\ thr[u].force_reload
                                                                /\ thr[u].mapping # <<>>]]
               /\ UNCHANGED cache
          ELSE IF ~csvfile.exists
          THEN /\ thr' = [thr EXCEPT ![t] = [call EXCEPT !.pc = "done"]]
               /\ cache' = Some(<<>>)
          ELSE /\ thr' = [thr EXCEPT ![t] = [call EXCEPT !.pc = "rows", !.rows = csvfile.rows]]
               /\ UNCHANGED cache
    /\ UNCHANGED <<pc, db, csvfile, loaded, taskvars, svcvars, corevars, docvars, auxvars>>

\* lines 540-552: one row of the csv reader
ReadRow(t) ==
    /\ thr[t].pc = "rows"
    /\ thr[t].rows # <<>>
    /\ \E mapping \in {AddRow(thr[t].mapping, Head(thr[t].rows))} :
          /\ thr' = [thr EXCEPT ![t].mapping = mapping, ![t].rows = Tail(thr[t].rows)]
          /\ cache' = GlobalAfterRow(cache, mapping)
    /\ UNCHANGED <<pc, db, csvfile, loaded, taskvars, svcvars, corevars, docvars, auxvars>>

\* lines 559-560
Publish(t) ==
    /\ thr[t].pc = "rows"
    /\ thr[t].rows = <<>>
    /\ cache' = Some(thr[t].mapping)
    /\ thr' = [thr EXCEPT ![t].pc = "done", ![t].out = thr[t].mapping]
    /\ UNCHANGED <<pc, db, csvfile, loaded, taskvars, svcvars, corevars, docvars, auxvars>>

\* the thread takes its next request
NextRequest(t) ==
    /\ thr[t].pc = "done"
    /\ thr' = [thr EXCEPT ![t] = IdleThread]
    /\ UNCHANGED <<pc, db, csvfile, cache, loaded, taskvars, svcvars, corevars, docvars, auxvars>>

\* a writer commits to the projects table, or the database goes down or up
CommitDb ==
    /\ db' \in Dbs \ {db}
    /\ UNCHANGED <<pc, csvfile, cache, thr, loaded, taskvars, svcvars, corevars, docvars, auxvars>>

\* data/project.csv is replaced
ReplaceCsv ==
    /\ csvfile' \in Csvs \ {csvfile}
    /\ UNCHANGED <<pc, db, cache, thr, loaded, taskvars, svcvars, corevars, docvars, auxvars>>

NextKB ==
    \/ \E t \in Threads : LoadDbKb(t)
    \/ \E t \in Threads : \E force_reload \in BOOLEAN : LoadMapping(t, force_reload)
    \/ \E t \in Threads : ReadRow(t)
    \/ \E t \in Threads : Publish(t)
    \/ \E t \in Threads : NextRequest(t)
    \/ CommitDb
    \/ ReplaceCsv

SpecKB == InitKB /\ [][NextKB]_vars

-----------------------------------------------------------------------------
(* The upload handlers of main.py, upload_single and                          *)
(* persist_upload_to_database, and the tasks of task_queue.py.  A request is  *)
(* a coroutine of the server; each action runs it up to its next update of   *)
(* the task.  No client has subscribed to a task: _notify_subscribers finds   *)
(* no queue.                                                                   *)

Reqs == {1, 2}

\* an absent keyword argument of update_task
NotPassed == <<>>

\* TaskQueue.create_task
create_task(ts, task_id) ==
    [id \in DOMAIN ts \cup {task_id} |->
        IF id = task_id
        THEN [status |-> "pending", current_step |-> "upload_received", progress |-> 0,
              error_message |-> FALSE, result_count |-> FALSE]
        ELSE ts[id]]

\* TaskQueue.update_task that keeps the status of the task
UpdateTaskKeepsStatus(ts, task_id, status, current_step, progress, error_message, result_count) ==
    IF task_id \notin DOMAIN ts THEN ts
    ELSE [ts EXCEPT ![task_id] =
            [status |-> ts[task_id].status,
             current_step |-> IF current_step = NotPassed THEN ts[task_id].current_step ELSE current_step[1],
             progress |-> IF progress = NotPassed THEN ts[task_id].progress ELSE progress[1],
             error_message |-> error_message,
             result_count |-> result_count]]

\* TaskQueue.update_task: status, current_step and progress are <<v>> or
\* NotPassed; error_message and result_count say whether one was passed
update_task(ts, task_id, status, current_step, progress, error_message, result_count) ==
    IF task_id \notin DOMAIN ts THEN ts
    ELSE [ts EXCEPT ![task_id] =
            [status |-> IF status = NotPassed THEN ts[task_id].status ELSE status[1],
             current_step |-> IF current_step = NotPassed THEN ts[task_id].current_step ELSE current_step[1],
             progress |-> IF progress = NotPassed THEN ts[task_id].progress ELSE progress[1],
             error_message |-> error_message,
             result_count |-> result_count]]

\* the requests: the handler, use_llm, and whether the file name ends in
\* .docx and parse_filename accepts it
Requests ==
    [pc : {"start"}, handler : {"upload_single", "persist_upload_to_database"}, use_llm : BOOLEAN,
     docx : BOOLEAN, parses : BOOLEAN, fell_back : {FALSE}]

InitUpload ==
    /\ pc = "serve"
    /\ tasks = <<>>
    /\ req \in [Reqs -> Requests]
    /\ IdleKB
    /\ IdleSvc
    /\ IdleAux
    /\ IdleCore
    /\ IdleDocx

At(r, handler, at) == req[r].handler = handler /\ req[r].pc = at

Goto(r, to) == req' = [req EXCEPT ![r].pc = to]

Others == <<pc, kbvars, svcvars, corevars, docvars, auxvars>>

\* lines 348-358 and 580-589: the checks of the file name and create_task
CreateTask(r) ==
    /\ req[r].pc = "start"
    /\ IF req[r].docx /\ req[r].parses
       THEN tasks' = create_task(tasks, r) /\ Goto(r, "created")
       ELSE Goto(r, "returned") /\ UNCHANGED tasks
    /\ UNCHANGED Others

\* lines 362-368 and 593-599
Processing(r) ==
    /\ req[r].pc = "created"
    /\ tasks' = update_task(tasks, r, <<"processing">>, <<"document_loading">>, <<10>>, FALSE, FALSE)
    /\ Goto(r, "loading")
    /\ UNCHANGED Others

\* lines 371-383 and 466-473 of upload_single
Extraction(r) ==
    /\ At(r, "upload_single", "loading")
    /\ IF req[r].use_llm
       THEN /\ tasks' = update_task(tasks, r, NotPassed, <<"text_extraction">>, <<20>>, FALSE, FALSE)
            /\ Goto(r, "read")
       ELSE /\ tasks' = update_task(tasks, r, NotPassed, <<"text_extraction">>, <<50>>, FALSE, FALSE)
            /\ Goto(r, "parse")
    /\ UNCHANGED Others

\* lines 386-397: the copy to the temporary file, which may raise
SaveForLlm(r) ==
    /\ At(r, "upload_single", "read")
    /\ \/ /\ tasks' = update_task(tasks, r, NotPassed, <<"llm_processing">>, <<40>>, FALSE, FALSE)
          /\ Goto(r, "extract")
       \/ Goto(r, "llm_failed") /\ UNCHANGED tasks
    /\ UNCHANGED Others

\* lines 400-432: extract_rows_from_docx returns, its import fails, or it
\* raises
LlmExtract(r) ==
    /\ At(r, "upload_single", "extract")
    /\ \/ /\ tasks' = update_task(tasks, r, NotPassed, <<"data_validation">>, <<80>>, FALSE, FALSE)
          /\ Goto(r, "format")
       \/ /\ tasks' = update_task(tasks, r, NotPassed, NotPassed, <<50>>, FALSE, FALSE)
          /\ Goto(r, "import_fallback")
       \/ Goto(r, "llm_failed") /\ UNCHANGED tasks
    /\ UNCHANGED Others

\* lines 419-431: parse_docx_rows after the ImportError; the seek may raise
ImportFallback(r) ==
    /\ At(r, "upload_single", "import_fallback")
    /\ \/ req' = [req EXCEPT ![r].pc = "format", ![r].fell_back = TRUE]
       \/ Goto(r, "llm_failed")
    /\ UNCHANGED <<tasks, Others>>

\* lines 433-452: os.unlink, which may raise, and the formatted rows
Format(r) ==
    /\ At(r, "upload_single", "format")
    /\ Goto(r, "complete") \/ Goto(r, "llm_failed")
    /\ UNCHANGED <<tasks, Others>>

\* lines 454-463: the handler of the LLM branch
LlmFailed(r) ==
    /\ At(r, "upload_single", "llm_failed")
    /\ tasks' = update_task(tasks, r, NotPassed, NotPassed, <<60>>, FALSE, FALSE)
    /\ req' = [req EXCEPT ![r].pc = "fallback", ![r].fell_back = TRUE]
    /\ UNCHANGED Others

\* lines 461-463: parse_docx_rows after the failure; the seek may raise
Fallback(r) ==
    /\ At(r, "upload_single", "fallback")
    /\ Goto(r, "complete") \/ Goto(r, "failed")
    /\ UNCHANGED <<tasks, Others>>

\* line 473: parse_docx_rows, which returns for every file
SimpleParse(r) ==
    /\ At(r, "upload_single", "parse")
    /\ Goto(r, "complete")
    /\ UNCHANGED <<tasks, Others>>

\* lines 602-613 of persist_upload_to_database: the copy to the temporary
\* file, which may raise
SaveForImport(r) ==
    /\ At(r, "persist_upload_to_database", "loading")
    /\ \/ /\ tasks' = update_task(tasks, r, NotPassed,
                                  IF req[r].use_llm THEN <<"llm_processing">> ELSE <<"text_extraction">>,
                                  <<30>>, FALSE, FALSE)
          /\ Goto(r, "import")
       \/ Goto(r, "failed") /\ UNCHANGED tasks
    /\ UNCHANGED Others

\* lines 616-641: the importer returns or raises; os.unlink of the finally
\* runs on the way out
Import(r) ==
    /\ At(r, "persist_upload_to_database", "import")
    /\ Goto(r, "complete") \/ Goto(r, "failed")
    /\ UNCHANGED <<tasks, Others>>

\* lines 476-497 and 644-667: the last update and, in
\* persist_upload_to_database, os.unlink of the finally, which may raise
Complete(r) ==
    /\ req[r].pc = "complete"
    /\ tasks' = update_task(tasks, r, <<"completed">>, <<"completed">>, <<100>>, FALSE, TRUE)
    /\ \/ Goto(r, "returned")
       \/ req[r].handler = "persist_upload_to_database" /\ Goto(r, "failed")
    /\ UNCHANGED Others

\* lines 499-508 and 669-678: the handler of the whole body
Failed(r) ==
    /\ req[r].pc = "failed"
    /\ tasks' = update_task(tasks, r, <<"failed">>, NotPassed, <<0>>, TRUE, FALSE)
    /\ Goto(r, "returned")
    /\ UNCHANGED Others

Step(r) ==
    \/ CreateTask(r)
    \/ Processing(r)
    \/ Extraction(r)
    \/ SaveForLlm(r)
    \/ LlmExtract(r)
    \/ ImportFallback(r)
    \/ Format(r)
    \/ LlmFailed(r)
    \/ Fallback(r)
    \/ SimpleParse(r)
    \/ SaveForImport(r)
    \/ Import(r)
    \/ Complete(r)
    \/ Failed(r)

NextUpload == \E r \in Reqs : Step(r)

SpecUpload == InitUpload /\ [][NextUpload]_vars

\* The event loop resumes every coroutine that can run, and every call a
\* handler makes returns or raises.
SpecUploadLive == SpecUpload /\ \A r \in Reqs : WF_vars(Step(r))

-----------------------------------------------------------------------------
(* report_importer.py: the import of one file into the database.  A table is
   the set of its rows; `session` is what the open transaction sees and
   `committed` what a rollback returns to.  A file name is given by what
   parse_filename reads from it, and a file by the SHA-256 of its content. *)

MaxImports == 2     \* imports of one behaviour

ToUpper(c) == IF \E i \in 1..26 : LowerChars[i] = c THEN UpperChars[CHOOSE i \in 1..26 : LowerChars[i] = c] ELSE c

upper(s) == [i \in 1..Len(s) |-> ToUpper(s[i])]

\* lines 31-51: the Wednesday of the week, one date per (year, week)
_get_cw_wednesday_date(year, cw) == [year |-> year, cw |-> cw]

\* date.today(): no Wednesday of the weeks of the file names
Today == [year |-> 2025, cw |-> "today"]

\* lines 66-75 of _create_or_get_upload_record: the metadata of the file name
Metadata(name) ==
    IF name.valid
    THEN [cw_label |-> SomeC(name.cw), category |-> name.category,
          log_date |-> _get_cw_wednesday_date(name.year, name.cw)]
    ELSE [cw_label |-> NoneC, category |-> "Unknown", log_date |-> Today]

\* utils.py: the upserts of seed_projects_from_csv, in the order of the file; a
\* later row of one code overwrites the earlier one
SeedRows(file) ==
    LET Usable == {i \in 1..Len(file.rows) :
                      /\ strip(OrEmpty(file.rows[i].project_code)) # <<>>
                      /\ strip(OrEmpty(file.rows[i].project_name)) # <<>>}
        Last == {i \in Usable : \A j \in Usable :
                    strip(OrEmpty(file.rows[j].project_code)) = strip(OrEmpty(file.rows[i].project_code)) => j <= i}
    IN  {[project_code |-> strip(OrEmpty(file.rows[i].project_code)),
          project_name |-> strip(OrEmpty(file.rows[i].project_name)),
          status |-> IF strip(IF OrEmpty(file.rows[i].status) = <<>> THEN <<"0">> ELSE OrEmpty(file.rows[i].status))
                            \in {<<"1">>, <<"t","r","u","e">>, <<"T","r","u","e">>} THEN 1 ELSE 0] : i \in Last}

seed_projects_from_csv(projects, file, now) ==
    IF ~file.exists THEN projects
    ELSE {p \in projects : \A s \in SeedRows(file) : s.project_code # p.project_code}
            \cup {[project_code |-> s.project_code, project_name |-> s.project_name,
                   status |-> s.status, updated_at |-> now] : s \in SeedRows(file)}

\* utils.py: the codes the query of get_project_code_by_name_db may return (it
\* has LIMIT 1 and no ORDER BY); the empty set when it returns None
get_project_code_by_name_db(projects, project_name) ==
    IF project_name = <<>> THEN {}
    ELSE {p.project_code : p \in {q \in projects : q.status = 1 /\ lower(q.project_name) = lower(strip(project_name))}}

\* the loop of lines 502-513 (and 240-251): the first of base, base_2, base_3,
\* ... that is no project code
Suffixed(base, counter) == IF counter = 1 THEN base ELSE base \o <<"_", CHOOSE c \in Digits : c = ToString(counter)>>

UniqueCode(projects, base) ==
    Suffixed(base, SetMin({k \in 1..9 : \A p \in projects : p.project_code # Suffixed(base, k)}))

\* lines 502 and 240: the generated code of a name that has no project
AutoCode(use_llm, project_name) ==
    (IF use_llm THEN <<"A","U","T","O","_">> ELSE <<"V","I","R","T","_">>)
        \o Prefix([i \in 1..Len(project_name) |->
                      IF upper(project_name)[i] = " " THEN "_" ELSE upper(project_name)[i]], 20)

\* the unique constraint uq_history_project_code_log_date_category
ViolatesUnique(history, row) ==
    \E h \in history : /\ h.project_code = row.project_code
                       /\ h.log_date = row.log_date
                       /\ h.category = row.category

\* lines 536-552 (and 280-294): the duplicate check before the INSERT
existing_record(history, project_code, log_date, upload_id) ==
    \E h \in history : /\ h.project_code = project_code
                       /\ h.log_date = log_date
                       /\ h.source_upload_id = upload_id

ShouldExtractAgain(is_new, force_import, existing_count) == FALSE

\* lines 466-478 (and 166-179): an upload that is known and has rows is not
\* processed again unless the import is forced
ShouldSkip(is_new, force_import, existing_count) == ~is_new /\ ~force_import /\ existing_count > 0

\* the file names of the uploads
FileNames ==
    {[valid |-> TRUE, year |-> 2025, cw |-> "CW01", category |-> "Development"],
     [valid |-> TRUE, year |-> 2025, cw |-> "CW02", category |-> "Development"],
     [valid |-> FALSE, year |-> 0, cw |-> "", category |-> ""]}

\* the contents of the uploads
Shas == {"sha1", "sha2"}

\* a row of an extraction; the rows of the LLM carry a category, the sections
\* of the simple parser carry none
ExtractedRow(name, summary, category) == [project_name |-> name, summary |-> summary, category |-> category]

ExtractedRows ==
    {ExtractedRow(<<"A","b">>, "v1", NoneC), ExtractedRow(<<"A","b">>, "v2", NoneC),
     ExtractedRow(<<"Z","z">>, "v1", NoneC), ExtractedRow(<<"A","b">>, "v1", SomeC("EPC"))}

\* what the extraction of a file returns; it raises for a file it cannot read
Extractions ==
    {[raises |-> FALSE, rows |-> rows] :
        rows \in {<<>>} \cup {<<r>> : r \in ExtractedRows}
                 \cup {<<ExtractedRow(<<"A","b">>, "v1", NoneC), ExtractedRow(<<"Z","z">>, "v1", NoneC)>>,
                       <<ExtractedRow(<<"A","b">>, "v2", NoneC), ExtractedRow(<<"A","b">>, "v1", NoneC)>>}}
        \cup {[raises |-> TRUE, rows |-> <<>>]}

EmptyTables == [uploads |-> {}, history |-> {}, projects |-> {}]

NoImport ==
    [pc |-> "idle", n |-> 0, now |-> 0, sha256 |-> "", name |-> <<>>, force_import |-> FALSE, use_llm |-> FALSE,
     upload_id |-> 0, is_new |-> FALSE, rows |-> <<>>, extracted |-> NoneS, rows_created |-> 0,
     error |-> "none", before |-> EmptyTables]

InitImport ==
    /\ pc = "import"
    /\ csvfile \in Csvs
    /\ committed = EmptyTables
    /\ session = EmptyTables
    /\ imp = NoImport
    /\ db = <<>> /\ cache = <<>> /\ thr = <<>> /\ loaded = <<>>
    /\ IdleTasks
    /\ IdleStream
    /\ IdleAna
    /\ IdleAux
    /\ IdleCore
    /\ IdleDocx

ImportOthers == <<pc, kbvars, taskvars, streamvars, anavars, corevars, docvars, auxvars>>

\* lines 453-478 (and 152-179): the seeding of the projects, the upload record
\* and the early return for a file that already has rows
BeginImport ==
    /\ pc = "import"
    /\ imp.pc \in {"idle", "returned", "raised"}
    /\ imp.n < MaxImports
    /\ \E sha256 \in Shas, name \in FileNames, force_import \in BOOLEAN, use_llm \in BOOLEAN :
        \E seeded \in {[session EXCEPT !.projects = seed_projects_from_csv(session.projects, csvfile, imp.now + 1)]} :
            LET existing == {u \in seeded.uploads : u.sha256 = sha256}
                is_new == existing = {}
                upload_id == IF is_new THEN imp.n + 1 ELSE (CHOOSE u \in existing : TRUE).id
                created == IF is_new
                           THEN [seeded EXCEPT !.uploads = @ \cup {[id |-> upload_id, sha256 |-> sha256,
                                                                    status |-> "received"]}]
                           ELSE seeded
                existing_count == Cardinality({h \in created.history : h.source_upload_id = upload_id})
                skip == ShouldSkip(is_new, force_import, existing_count)
            IN  /\ committed' = seeded
                /\ session' = created
                /\ imp' = [pc |-> IF skip THEN "returned" ELSE "extract", n |-> imp.n + 1, now |-> imp.now + 1,
                           sha256 |-> sha256, name |-> name, force_import |-> force_import, use_llm |-> use_llm,
                           upload_id |-> upload_id, is_new |-> is_new, rows |-> <<>>, extracted |-> NoneS,
                           rows_created |-> 0, error |-> "none", before |-> committed]
    /\ UNCHANGED ImportOthers

\* lines 483-490 (and 183-234): the extraction, inside the try
Extract ==
    /\ pc = "import"
    /\ imp.pc = "extract"
    /\ \E e \in Extractions :
        imp' = IF e.raises THEN [imp EXCEPT !.pc = "except", !.error = "Exception"]
               ELSE [imp EXCEPT !.pc = "rows", !.rows = e.rows, !.extracted = Some(e.rows)]
    /\ UNCHANGED <<committed, session, ImportOthers>>

\* lines 492-586 (and 236-327): one pass of the loop over the extracted rows
ProcessRow ==
    /\ pc = "import"
    /\ imp.pc = "rows"
    /\ imp.rows # <<>>
    /\ \E row_data \in {Head(imp.rows)}, meta \in {Metadata(imp.name)} :
        \E found \in {get_project_code_by_name_db(session.projects, row_data.project_name)} :
        \E project_code \in IF found # {} THEN found
                            ELSE {UniqueCode(session.projects, AutoCode(imp.use_llm, row_data.project_name))} :
            LET projects == IF found # {} THEN session.projects
                            ELSE session.projects \cup {[project_code |-> project_code,
                                                         project_name |-> row_data.project_name,
                                                         status |-> 1, updated_at |-> imp.now]}
                new == [project_code |-> project_code,
                        category |-> IF imp.use_llm /\ ~row_data.category.isNone THEN row_data.category.val
                                     ELSE meta.category,
                        log_date |-> meta.log_date, summary |-> row_data.summary,
                        source_upload_id |-> imp.upload_id]
            IN  IF existing_record(session.history, project_code, meta.log_date, imp.upload_id)
                THEN /\ session' = [session EXCEPT !.projects = projects]
                     /\ imp' = [imp EXCEPT !.rows = Tail(@)]
                ELSE IF ViolatesUnique(session.history, new)
                THEN /\ session' = [session EXCEPT !.projects = projects]
                     /\ imp' = [imp EXCEPT !.pc = "except", !.error = "IntegrityError"]
                ELSE /\ session' = [session EXCEPT !.projects = projects, !.history = @ \cup {new}]
                     /\ imp' = [imp EXCEPT !.rows = Tail(@), !.rows_created = @ + 1]
    /\ UNCHANGED <<committed, ImportOthers>>

\* sets the status of the upload record, if the table has it
SetStatus(uploads, upload_id, status) ==
    {IF u.id = upload_id THEN [u EXCEPT !.status = status] ELSE u : u \in uploads}

\* lines 588-604 (and 329-345): the end of the loop, the status and the commit
FinishImport ==
    /\ pc = "import"
    /\ imp.pc = "rows"
    /\ imp.rows = <<>>
    /\ \E done \in {[session EXCEPT !.uploads = SetStatus(@, imp.upload_id, "parsed")]} :
        /\ session' = done
        /\ committed' = done
    /\ imp' = [imp EXCEPT !.pc = "returned"]
    /\ UNCHANGED ImportOthers

\* lines 606-624 (and 347-365): the handler of the exceptions
RollbackMarksFailed(tables) == [tables EXCEPT !.uploads = SetStatus(@, imp.upload_id, "failed")]

FailImport ==
    /\ pc = "import"
    /\ imp.pc = "except"
    /\ \E failed \in {RollbackMarksFailed(committed)} :
        /\ session' = failed
        /\ committed' = failed
    /\ imp' = [imp EXCEPT !.pc = "raised"]
    /\ UNCHANGED ImportOthers

NextImport == BeginImport \/ Extract \/ ProcessRow \/ FinishImport \/ FailImport

SpecImport == InitImport /\ [][NextImport]_vars

-----------------------------------------------------------------------------
(* main.py and task_queue.py: the streams of stream_task_updates.  A queue of
   TaskQueue.subscribers is named by the stream that made it; an update is
   given by its status. *)

TaskIds == {1, 2}

MaxUpdates == 2     \* updates of one task

Streams == {1, 2}

Terminal == {"completed", "failed"}

\* TaskQueue.subscribe_to_task: the list of the task with the new queue
subscribe_to_task(subs, task_id, queue) ==
    [t \in DOMAIN subs \cup {task_id} |->
        IF t = task_id THEN (IF t \in DOMAIN subs THEN subs[t] ELSE <<>>) \o <<queue>> ELSE subs[t]]

\* TaskQueue._notify_subscribers: queue.put of an asyncio.Queue without a
\* maximum size returns at once, so that no queue is dropped
_notify_subscribers(st, subs, task_id, update) ==
    [s \in DOMAIN st |->
        IF task_id \in DOMAIN subs /\ \E i \in 1..Len(subs[task_id]) : subs[task_id][i] = s
        THEN [st[s] EXCEPT !.queue = Append(@, update)]
        ELSE st[s]]

\* lines 84-94 of main.py: whether the loop ends after the update it yielded
BreaksAfter(update) == update \in Terminal

NoStream == [pc |-> "closed", task_id |-> 0, queue |-> <<>>, yielded |-> <<>>, heartbeat |-> FALSE]

InitStream ==
    /\ pc = "stream"
    /\ tasks = <<>>
    /\ req = <<>>
    /\ subscribers = <<>>
    /\ stream = [s \in Streams |-> NoStream]
    /\ IdleKB
    /\ IdleImp
    /\ IdleAna
    /\ IdleAux
    /\ IdleCore
    /\ IdleDocx

StreamOthers == <<pc, req, kbvars, impvars, anavars, corevars, docvars, auxvars>>

\* an upload handler creates its task
NewTask(t) ==
    /\ pc = "stream"
    /\ t \notin DOMAIN tasks
    /\ tasks' = create_task(tasks, t)
    /\ UNCHANGED <<subscribers, stream, StreamOthers>>

\* TaskQueue.update_task as the upload handlers call it for a task that runs,
\* with a greater progress each time and a final status at last: the new entry
\* of the task, then _notify_subscribers
UpdateTask(t) ==
    /\ pc = "stream"
    /\ t \in DOMAIN tasks
    /\ tasks[t].status \notin Terminal
    /\ tasks[t].progress < MaxUpdates
    /\ \E status \in IF tasks[t].progress + 1 < MaxUpdates THEN {"processing", "completed", "failed"} ELSE Terminal :
        /\ tasks' = update_task(tasks, t, <<status>>, NotPassed, <<tasks[t].progress + 1>>,
                                status = "failed", status = "completed")
        /\ stream' = _notify_subscribers(stream, subscribers, t, status)
    /\ UNCHANGED <<subscribers, StreamOthers>>

\* lines 78-84 of main.py: a client opens the stream of a task; the stream
\* subscribes and yields the current status of the task, if it has one
OpenStream(s) ==
    /\ pc = "stream"
    /\ stream[s].pc = "closed"
    /\ \E task_id \in TaskIds :
        /\ subscribers' = subscribe_to_task(subscribers, task_id, s)
        /\ stream' = [stream EXCEPT ![s] =
                        [pc |-> "loop", task_id |-> task_id, queue |-> <<>>,
                         yielded |-> IF task_id \in DOMAIN tasks THEN <<tasks[task_id].status>> ELSE <<>>,
                         heartbeat |-> FALSE]]
    /\ UNCHANGED <<tasks, StreamOthers>>

\* lines 86-94 of main.py: queue.get returns an update; the stream yields it
\* and breaks if it is final
YieldUpdate(s) ==
    /\ pc = "stream"
    /\ stream[s].pc = "loop"
    /\ stream[s].queue # <<>>
    /\ stream' = [stream EXCEPT ![s].queue = Tail(@),
                                ![s].yielded = Append(@, Head(stream[s].queue)),
                                ![s].pc = IF BreaksAfter(Head(stream[s].queue)) THEN "ended" ELSE "loop"]
    /\ UNCHANGED <<tasks, subscribers, StreamOthers>>

\* lines 96-98 of main.py: no update within 30 seconds; the stream yields a
\* heartbeat and waits again (heartbeat: whether it has yielded an odd number)
Heartbeat(s) ==
    /\ pc = "stream"
    /\ stream[s].pc = "loop"
    /\ stream[s].queue = <<>>
    /\ stream' = [stream EXCEPT ![s].heartbeat = ~@]
    /\ UNCHANGED <<tasks, subscribers, StreamOthers>>

StreamStep(s) == YieldUpdate(s) \/ Heartbeat(s)

NextStream ==
    \/ \E t \in TaskIds : NewTask(t) \/ UpdateTask(t)
    \/ \E s \in Streams : OpenStream(s) \/ StreamStep(s)

SpecStream == InitStream /\ [][NextStream]_vars

\* the event loop runs every stream that can go on, and a handler that began
\* goes on to its next update
SpecStreamLive ==
    /\ SpecStream
    /\ \A s \in Streams : WF_vars(StreamStep(s))
    /\ \A t \in TaskIds : WF_vars(UpdateTask(t))

-----------------------------------------------------------------------------
(* services/analysis_service.py: analyze_project_pair.  `contents` is the
   table project_history in the order its query returns the rows; the MD5
   digest of a text is given by the text, that is, digests do not collide. *)

RECURSIVE JoinWith(_, _)

JoinWith(parts, sep) ==
    IF parts = <<>> THEN <<>>
    ELSE IF Len(parts) = 1 THEN parts[1]
    ELSE parts[1] \o sep \o JoinWith(Tail(parts), sep)

\* lines 104-110: the text of one record
RecordText(record) ==
    JoinWith((IF record.title # <<>> THEN <<<<"T","i","t","l","e",":"," ">> \o record.title>> ELSE <<>>)
                \o <<record.summary>>
                \o (IF record.next_actions # <<>>
                    THEN <<<<"N","e","x","t"," ","A","c","t","i","o","n","s",":"," ">> \o record.next_actions>>
                    ELSE <<>>),
             <<" ","|"," ">>)

\* lines 80-112: the aggregated content of a project in a week, None without
\* a record
get_project_content_for_cw(history, project_code, cw_label, category) ==
    LET records == SelectAt(history, {i \in 1..Len(history) :
                        /\ history[i].project_code = project_code
                        /\ history[i].cw_label = cw_label
                        /\ (category.isNone \/ history[i].category = category.val)})
    IN  IF records = <<>> THEN NoneS
        ELSE Some(JoinWith([i \in 1..Len(records) |-> RecordText(records[i])], <<"\n","\n">>))

\* lines 256-259
_generate_content_hash(past_content, latest_content) == past_content \o <<"|">> \o latest_content

\* lines 274-281: the rows the query of the stored analysis matches
ExistingAnalyses(table, project_code, latest_cw, language, category) ==
    {a \in table : /\ a.project_code = project_code
                   /\ a.cw_label = latest_cw
                   /\ a.language = language
                   /\ a.category = category}

UsesCachedNever(existing, content_hash) == FALSE

\* line 291: the stored analysis is returned as it is
UsesCached(existing, content_hash) == existing # {} /\ \A a \in existing : a.content_hash = content_hash

HistoryRecord(cw_label, category, title, summary, next_actions) ==
    [project_code |-> "P1", cw_label |-> cw_label, category |-> category, title |-> title, summary |-> summary,
     next_actions |-> next_actions]

\* the states of project_history
Histories ==
    {<<>>,
     <<HistoryRecord("CW01", "Development", <<>>, <<"a">>, <<>>),
       HistoryRecord("CW02", "Development", <<>>, <<"b">>, <<>>)>>,
     <<HistoryRecord("CW01", "Development", <<>>, <<"a">>, <<>>),
       HistoryRecord("CW02", "Development", <<"t">>, <<"b">>, <<"n">>),
       HistoryRecord("CW02", "EPC", <<>>, <<"c">>, <<>>)>>}

NoCall ==
    [made |-> FALSE, project_code |-> "", latest_cw |-> "", language |-> "", category |-> NoneC,
     past_content |-> <<>>, latest_content |-> <<>>, llm_called |-> FALSE, was_created |-> FALSE,
     existing |-> {}, changed |-> FALSE]

InitAnalysis ==
    /\ pc = "analysis"
    /\ analyses = {}
    /\ contents \in Histories
    /\ lastcall = NoCall
    /\ IdleKB
    /\ IdleTasks
    /\ IdleImp
    /\ IdleStream
    /\ IdleAux
    /\ IdleCore
    /\ IdleDocx

AnalysisOthers == <<pc, kbvars, taskvars, impvars, streamvars, corevars, docvars, auxvars>>

\* an import changes project_history
ChangeHistory ==
    /\ pc = "analysis"
    /\ \E h \in Histories \ {contents} : contents' = h
    /\ UNCHANGED <<analyses, lastcall, AnalysisOthers>>

\* lines 261-341: one call; a row keeps the contents it was computed from
\* (past_content, latest_content) as history, and lastcall the rows of its key
\* that the call found and whether it changed the table.  The calls are made
\* one after the other, as the loop of analyze_reports makes them; two
\* requests that interleave at the await of the LLM are not modelled.
AnalyzeProjectPair ==
    /\ pc = "analysis"
    /\ \E past_cw \in {"CW00", "CW01"}, language \in {"EN"}, category \in {NoneC, SomeC("Development")},
          llm_result \in {"r1", "r2"} :
        \E existing \in {ExistingAnalyses(analyses, "P1", "CW02", language, category)},
           past_content \in {OrEmpty(get_project_content_for_cw(contents, "P1", past_cw, category))},
           latest_content \in {OrEmpty(get_project_content_for_cw(contents, "P1", "CW02", category))} :
            LET content_hash == _generate_content_hash(past_content, latest_content)
                row == [id |-> Cardinality(existing) + 1, project_code |-> "P1", cw_label |-> "CW02",
                        language |-> language, category |-> category, result |-> llm_result,
                        content_hash |-> content_hash, past_content |-> past_content,
                        latest_content |-> latest_content]
                Call(llm_called, was_created, changed) ==
                    [made |-> TRUE, project_code |-> "P1", latest_cw |-> "CW02", language |-> language,
                     category |-> category, past_content |-> past_content, latest_content |-> latest_content,
                     llm_called |-> llm_called, was_created |-> was_created, existing |-> existing,
                     changed |-> changed]
            IN  \/ /\ UsesCached(existing, content_hash)
                   /\ analyses' = analyses
                   /\ lastcall' = Call(FALSE, FALSE, analyses' # analyses)
                \/ /\ ~UsesCached(existing, content_hash)
                   /\ existing # {}
                   /\ \E a \in existing :
                        analyses' = (analyses \ {a})
                            \cup {[a EXCEPT !.result = llm_result, !.content_hash = content_hash,
                                            !.past_content = past_content, !.latest_content = latest_content]}
                   /\ lastcall' = Call(TRUE, FALSE, analyses' # analyses)
                \/ /\ ~UsesCached(existing, content_hash)
                   /\ existing = {}
                   /\ analyses' = analyses \cup {row}
                   /\ lastcall' = Call(TRUE, TRUE, analyses' # analyses)
    /\ UNCHANGED <<contents, AnalysisOthers>>

NextAnalysis == ChangeHistory \/ AnalyzeProjectPair

SpecAnalysis == InitAnalysis /\ [][NextAnalysis]_vars

-----------------------------------------------------------------------------
(* Properties of _extract_rows_from_text_core *)

StrategyOrder == <<"json_mode", "function_calling", "plain">>

\* C1: the strategies are called in the order JSON-mode, function-calling,
\* plain-prompt; a further strategy is called only after the previous one
\* raised or failed parsing/validation; the call returns at the first strategy
\* whose response validates; at most three calls are made, and exactly three
\* when every strategy fails.
C1_StrategiesInOrder ==
    /\ Len(log) <= 3
    /\ \A i \in 1..Len(log) : log[i].mode = StrategyOrder[i]
    /\ \A i \in 1..(Len(log) - 1) : log[i].handler \in {"outer", "inner"} /\ log[i].exit = "continue"
    /\ \A i \in 1..Len(log) :
          (log[i].exit # "pending" /\ log[i].handler = "none")
              => (i = Len(log) /\ pc = "done" /\ log[i].exit = "return")
    /\ (pc = "done" /\ log[Len(log)].exit # "return") => Len(log) = 3

C1_Witness ==
    /\ pc = "done"
    /\ Len(log) = 2
    /\ log[1].handler = "inner"
    /\ log[2].path = "direct"
    /\ result # <<>>

\* the text of the response contains an entry that passes schema validation
HasValidEntry(k, d) ==
    /\ d.kind = "ok"
    /\ \E j \in 1..Len(SelectContent(k, d).toks) :
          LET tk == SelectContent(k, d).toks[j]
          IN  tk.t = "item" /\ EntryValid(ItemPool[tk.i])

\* C2: whatever each strategy's LLM call does (transport exception, non-JSON
\* text, JSON of the wrong shape, missing content), no exception leaves
\* _extract_rows_from_text_core, and a non-empty list is returned only by a
\* strategy whose response holds a valid entry.
C2_NeverRaises ==
    [][/\ escaped' = "none"
       /\ (pc' = "done" /\ result' # <<>>) => (pc = "process" /\ HasValidEntry(attempt, data))]_vars

C2_Witness ==
    /\ pc = "done"
    /\ cfg.creds
    /\ Len(log) = 3
    /\ log[1].handler = "outer"
    /\ log[2].handler = "inner"
    /\ log[3].handler = "outer"
    /\ result = <<>>

\* C3: with whitelist enforcement on and a non-empty allowed set, every
\* returned row's project name is, ignoring case, in the allowed set.
C3_WhitelistOnEveryPath ==
    (pc = "done" /\ cfg.enforce /\ AllowedProjects(cfg) # {})
        => \A j \in 1..Len(result) : lower(result[j].project_name) \in AllowedProjects(cfg)

\* C4: a schema-valid entry of a response that parsed as JSON with a list of
\* entries is returned by the call, whatever the later strategies return.
C4_ValidSiblingsReturned ==
    (pc = "done" /\ sibling # <<>>) => \E j \in 1..Len(result) : result[j] = sibling[1]

\* C5: with the LLM credentials missing, the configuration error is raised to
\* the caller at the first LLM call and no further strategy is attempted.
C5_MissingCredentialsRaise ==
    ~cfg.creds => (Len(log) <= 1 /\ (pc = "done" => escaped = "RuntimeError"))

\* C6: every returned row's source_text is null or a substring of the section
\* text.
C6_SourceTextFromSection ==
    \A j \in 1..Len(result) :
        result[j].source_text.isNone \/ IsSubstring(result[j].source_text.val, cfg.text)

\* the row the source_text rule prescribes for a validated entry
PrescribedRow(it, text) ==
    [project_name |-> strip(it.pn.v),
     title        |-> it.title,
     summary      |-> ProjectEntry(it).summary,
     next_actions |-> NoneS,
     owner        |-> NoneS,
     category     |-> ProjectEntry(it).category,
     source_text  |-> IF it.source_text.isNone THEN NoneS
                      ELSE IF Len(strip(it.source_text.val)) >= 80 THEN Some(strip(it.source_text.val))
                      ELSE Some(strip(text))]

\* C7: on every return path each returned row is built from a validated entry
\* of the response with source_text null when the entry reports none, the
\* trimmed evidence when that has at least 80 characters, and the trimmed
\* section text otherwise.
C7_SourceTextRule ==
    [][(pc = "process" /\ pc' = "done")
          => \A j \in 1..Len(result') :
                \E n \in 1..Len(SelectContent(attempt, data).toks) :
                    LET tk == SelectContent(attempt, data).toks[n]
                    IN  /\ tk.t = "item"
                        /\ EntryValid(ItemPool[tk.i])
                        /\ result'[j] = PrescribedRow(ItemPool[tk.i], cfg.text)]_vars

C7_Witness ==
    /\ pc = "done"
    /\ log[Len(log)].path = "regex"
    /\ \E j \in 1..Len(result) : result[j].source_text = Some(strip(cfg.text))
    /\ \E j \in 1..Len(result) : result[j].source_text = Some(Rep("x", 80))

\* C8: for a section in which detection finds a cluster and no project and for
\* which no LLM call returned rows, the returned list holds exactly one row per
\* distinct (ignoring case) member of the detected clusters, with source_text
\* the trimmed section text and summary its first 1000 characters.
C8_FallbackRowPerMember ==
    pc = "returned" =>
        \A i \in 1..Len(doc.sections) :
            LET det == _detect_whitelist_candidates(doc.sections[i], doc.project_names_kb,
                                                    doc.cluster_to_projects)
                text == strip(doc.sections[i])
                found == MembersOf(det.clusters, doc.cluster_to_projects)
                members == UniqueLower(Flatten([j \in 1..Len(found) |-> found[j].members]))
                emitted == SelectSeq(returned, LAMBDA r : r.source_text = Some(text))
            IN  (det.clusters # <<>> /\ det.projects = <<>> /\ ~added[i]) =>
                    /\ Len(emitted) = Len(members)
                    /\ \A j \in 1..Len(members) :
                          \E k \in 1..Len(emitted) :
                              /\ emitted[k].project_name = members[j]
                              /\ emitted[k].summary = Prefix(text, 1000)

\* trimmed, lower-cased, whitespace runs collapsed to one space
Normalized(x) == ReplaceRuns(lower(strip(x)), Whitespace)

\* C9 as stated: no two rows of the post-processor's output share the key
\* (normalized project name, normalized title, first 200 characters of the
\* normalized summary, first 200 characters of the normalized source text).
C9_NoSharedKeyOfNormalizedText ==
    LET Key(r) == <<Normalized(r.project_name), Normalized(r.title.val),
                    Prefix(Normalized(r.summary), 200),
                    Prefix(Normalized(r.source_text.val), 200)>>
    IN  pc = "returned" =>
            \A i, j \in 1..Len(returned) : i # j => Key(returned[i]) # Key(returned[j])

\* C9, amended: no two rows of the post-processor's output share the key
\* (normalized project name, normalized title, normalized first 200 characters
\* of the summary, normalized first 200 characters of the source text).
C9_NoSharedKeyOfTruncatedText ==
    LET Key(r) == <<Normalized(r.project_name), Normalized(r.title.val),
                    Normalized(Prefix(r.summary, 200)),
                    Normalized(Prefix(r.source_text.val, 200))>>
    IN  pc = "returned" =>
            \A i, j \in 1..Len(returned) : i # j => Key(returned[i]) # Key(returned[j])

\* two different rows with one key went in and one row came out
C9_Witness ==
    /\ pc = "returned"
    /\ Len(all_rows) = 2
    /\ all_rows[1] # all_rows[2]
    /\ Len(returned) = 1

\* C10: the post-processor applied to its own output, with the same knowledge
\* base, returns that output.
C10_OutputIsFixedPoint == pc = "reapplied" => again = returned

\* C11: per section the candidate list (projects, then clusters) is cut into
\* consecutive chunks of at most 30 names, one extraction call per sent chunk:
\* with whitelist enforcement on or chunk-all set every chunk is sent, so every
\* candidate goes out in exactly one call; otherwise only the first chunk is
\* sent.
C11_ChunksOfCandidates ==
    pc = "returned" =>
        \A i \in 1..Len(doc.sections) :
            LET candidates == Combined(doc, _detect_whitelist_candidates(
                                  doc.sections[i], doc.project_names_kb, doc.cluster_to_projects))
                calls == SelectSeq(sent, LAMBDA c : c.section = i)
                n == Len(candidates)
                chunks == IF doc.whitelist_enabled \/ doc.chunk_all THEN (n + 29) \div 30 ELSE 1
            IN  candidates # <<>> =>
                    /\ Len(calls) = chunks
                    /\ \A k \in 1..chunks :
                          calls[k].projects \o calls[k].clusters =
                              SubSeq(candidates, 30 * (k - 1) + 1, IF 30 * k <= n THEN 30 * k ELSE n)

\* letters and digits
Letters == WordChars \ {"_"}

\* C12: _safe_truncate_text returns a text within the budget unchanged;
\* otherwise it returns a prefix of at most 4 * max_tokens characters that ends
\* at a paragraph break, a sentence end or a word boundary and not inside a
\* word.
C12_TruncatesAtBoundary ==
    (pc = "return" /\ arg.fn = "_safe_truncate_text") =>
        LET text == arg.text
            budget == 4 * arg.max_tokens
            n == Len(ret)
            InsideWord == n >= 1 /\ n < Len(text) /\ text[n] \in Letters /\ text[n + 1] \in Letters
            ParagraphBreak == n + 2 <= Len(text) /\ text[n + 1] = "\n" /\ text[n + 2] = "\n"
            SentenceEnd == n >= 1 /\ text[n] \in {".", "!", "?"}
        IN  IF Len(text) <= budget THEN ret = text
            ELSE /\ n <= budget
                 /\ ret = SubSeq(text, 1, n)
                 /\ (ParagraphBreak \/ SentenceEnd \/ ~InsideWord)
                 /\ ~InsideWord

\* the characters of s that are not whitespace
Squeezed(s) == SelectSeq(s, LAMBDA c : c \notin Whitespace)

\* some line of the text is a country label line or an upper-case heading
HasStrongBoundary(text) ==
    \E k \in 1..Len(split(text, "\n")) : StrongBoundary(rstrip(split(text, "\n")[k]))

\* C13 as stated: every section _split_into_sections returns is non-empty and
\* at most max_chars characters long, and the sections are in document order,
\* with or without strong boundaries.
C13_SectionsCapped ==
    (pc = "return" /\ arg.fn = "_split_into_sections") =>
        /\ \A i \in 1..Len(ret) : ret[i] # <<>> /\ Len(ret[i]) <= arg.max_chars
        /\ Squeezed(Flatten(ret)) = Squeezed(arg.text)

\* C13, amended: every section _split_into_sections returns is non-empty, the
\* sections are in document order, and when the text has a strong boundary
\* every section is at most max_chars characters long.
C13_SectionsCappedWithBoundary ==
    (pc = "return" /\ arg.fn = "_split_into_sections") =>
        /\ \A i \in 1..Len(ret) :
              ret[i] # <<>> /\ (HasStrongBoundary(arg.text) => Len(ret[i]) <= arg.max_chars)
        /\ Squeezed(Flatten(ret)) = Squeezed(arg.text)

\* a text with a heading and a group of lines longer than max_chars was sliced
C13_Witness ==
    /\ pc = "return"
    /\ arg.fn = "_split_into_sections"
    /\ HasStrongBoundary(arg.text)
    /\ Len(ret) >= 3
    /\ Len(ret[1]) = arg.max_chars
    /\ Len(ret[Len(ret)]) < arg.max_chars

\* C14: when _azure_chat_completion computes max_tokens, the estimated input
\* tokens plus max_tokens do not exceed the configured max context.
C14_WithinContext ==
    (pc = "return" /\ arg.fn = "_azure_chat_completion") =>
        ret.input_tokens + ret.max_tokens <= arg.limits.max_context

\* C15: when two consecutive mentions found by _identify_project_sections are
\* less than the minimum gap of 80 characters apart, both projects get the same text, from the
\* first mention up to the third mention or, without one, the end of the text.
C15_CloseMentionsShareText ==
    (pc = "return" /\ arg.fn = "_identify_project_sections") =>
        LET ups == UniquePositions(arg.all_lines, arg.project_names)
            full_text == JoinLines(arg.all_lines)
            Span(i) == strip(SubSeq(full_text, ups[i].pos + 1,
                                    IF i + 2 <= Len(ups) THEN ups[i + 2].pos ELSE Len(full_text)))
        IN  \A i \in 1..(Len(ups) - 1) :
                ups[i + 1].pos - ups[i].pos < 80 =>
                    /\ \E r \in 1..Len(ret) : ret[r] = [name |-> ups[i].name, text |-> Span(i)]
                    /\ \E r \in 1..Len(ret) : ret[r] = [name |-> ups[i + 1].name, text |-> Span(i)]

\* C16: parse_docx_rows returns at least one row for every input; when no
\* project section with non-blank text is identified it returns exactly one
\* row, whose summary is the text of all lines joined and whose title is null.
C16_AtLeastOneRow ==
    (pc = "return" /\ arg.fn = "parse_docx_rows") =>
        LET all_lines == IF arg.file.readable THEN AllLines(arg.file) ELSE <<>>
            projects == IF all_lines = <<>> THEN <<>>
                        ELSE _identify_project_sections(all_lines, arg.project_names)
        IN  /\ Len(ret) >= 1
            /\ (\A i \in 1..Len(projects) : strip(projects[i].text) = <<>>) =>
                    /\ Len(ret) = 1
                    /\ ret[1].summary = JoinLines(all_lines)
                    /\ ret[1].title = NoneS

\* a document with lines and without a mention has returned its one row
C16_Witness ==
    /\ pc = "return"
    /\ arg.fn = "parse_docx_rows"
    /\ arg.file.readable
    /\ Len(AllLines(arg.file)) >= 2
    /\ _identify_project_sections(AllLines(arg.file), arg.project_names) = <<>>
    /\ Len(ret) = 1
    /\ ret[1].summary = JoinLines(AllLines(arg.file))

\* C17: for a file that cannot be opened, parse_docx_rows and
\* extract_rows_from_docx return no row or the one fallback row, and no
\* exception leaves them.
C17_UnreadableReturns ==
    (pc # "call" /\ arg.fn \in {"parse_docx_rows", "extract_rows_from_docx"} /\ ~arg.file.readable) =>
        /\ escaped = "none"
        /\ Len(ret) <= 1

\* C18: once the knowledge base has been loaded, a later load without
\* force_reload returns the cached content whatever has changed in the
\* database and the file meanwhile, and the cached content changes only
\* through a load with force_reload.
C18_LaterLoadsReturnCache ==
    [][/\ \A t \in Threads :
            (thr[t].pc = "idle" /\ thr'[t].pc = "done" /\ ~thr'[t].force_reload) =>
                /\ (thr'[t].fn = "_load_db_kb" /\ ~loaded.isNone) => thr'[t].out = loaded.val
                /\ (thr'[t].fn = "load_project_name_to_code_mapping" /\ ~cache.isNone) =>
                        thr'[t].out = cache.val
       /\ (~cache.isNone /\ cache' # cache) =>
            \E t \in Threads : thr[t].pc # "done" /\ thr'[t].pc = "done" /\ thr'[t].force_reload]_vars

\* the mappings of the whole files
CompleteMappings == {MappingOf(c.rows, <<>>) : c \in Csvs}

\* C19: a thread that reads the cached mapping while another thread reloads
\* it gets the whole mapping of a file, never one that is being built.
C19_ReaderSeesWholeMapping ==
    \A t \in Threads :
        (thr # <<>> /\ thr[t].pc = "done" /\ thr[t].cached) => thr[t].out \in CompleteMappings

\* a thread has read the cached mapping while a reload had read some rows
C19_Witness ==
    /\ thr # <<>>
    /\ \E t \in Threads : thr[t].pc = "done" /\ thr[t].cached /\ thr[t].overlapped
                            /\ thr[t].out \in CompleteMappings

\* C20: every task that upload_single or persist_upload_to_database has
\* created reaches the status completed or failed, whichever way the handler
\* takes.
C20_TasksFinish ==
    \A r \in Reqs : (r \in DOMAIN tasks) ~> (r \in DOMAIN tasks /\ tasks[r].status \in {"completed", "failed"})

\* one request has completed its task with the simple parser after the LLM
\* parser failed, the other has failed to persist
C20_Witness ==
    /\ req # <<>>
    /\ \E r, q \in Reqs :
          /\ r \in DOMAIN tasks /\ q \in DOMAIN tasks
          /\ req[r].pc = "returned" /\ req[r].fell_back /\ tasks[r].status = "completed"
          /\ req[q].pc = "returned" /\ req[q].handler = "persist_upload_to_database"
          /\ tasks[q].status = "failed"

\* C30: once an upload handler has set the status of its task to completed or
\* failed, no later update of that handler changes the status.
C30_TerminalStatusStable ==
    [][\A r \in DOMAIN tasks :
            tasks[r].status \in {"completed", "failed"} => tasks'[r].status = tasks[r].status]_vars

\* the rows of a period: of one log date and one category
PeriodRows(tables, log_date, category) == {h \in tables.history : h.log_date = log_date /\ h.category = category}

\* the import that just ended had a file whose content an earlier import
\* stored history rows for, and was not forced
SecondUnforced ==
    /\ pc = "import"
    /\ imp.pc \in {"returned", "raised"}
    /\ ~imp.force_import
    /\ \E u \in imp.before.uploads :
          u.sha256 = imp.sha256 /\ \E h \in imp.before.history : h.source_upload_id = u.id

OneUploadPerSha == \A u, v \in committed.uploads : u.sha256 = v.sha256 => u = v

C22_ReimportReplacesPeriod ==
    (/\ pc = "import"
     /\ imp.pc = "returned"
     /\ ~imp.extracted.isNone
     /\ PeriodRows(imp.before, Metadata(imp.name).log_date, Metadata(imp.name).category) # {})
        => \A h \in PeriodRows(committed, Metadata(imp.name).log_date, Metadata(imp.name).category) :
              \E i \in 1..Len(imp.extracted.val) :
                  /\ h.project_code \in get_project_code_by_name_db(committed.projects,
                                                                    imp.extracted.val[i].project_name)
                  /\ h.summary = imp.extracted.val[i].summary

\* C27: no import attempts to insert a project_history row whose
\* (project_code, log_date, category) already exists: none fails on the
\* unique constraint of the table.
C27_NoUniqueViolation == pc = "import" => imp.error # "IntegrityError"

\* C28: after an import that failed once its upload record existed, the
\* database holds that upload record with status 'failed' and nothing the
\* failed import wrote: no history row and no generated project.
C28_FailedImportIsRecorded ==
    (pc = "import" /\ imp.pc = "raised")
        => /\ \E u \in committed.uploads : u.id = imp.upload_id /\ u.status = "failed"
           /\ committed.history = imp.before.history
           /\ committed.projects = seed_projects_from_csv(imp.before.projects, csvfile, imp.now)

\* C29: a stream that has delivered the status completed or failed to its
\* client ends, whether the task reached the status after the stream
\* subscribed or had it when the stream was opened.
C29_StreamEndsAfterFinalStatus ==
    \A s \in Streams :
        (\E i \in 1..Len(stream[s].yielded) : stream[s].yielded[i] \in Terminal) ~> (stream[s].pc = "ended")

\* the rows of the key of the last call
KeyRows(table) ==
    ExistingAnalyses(table, lastcall.project_code, lastcall.latest_cw, lastcall.language, lastcall.category)

\* the last call found a stored analysis computed from the contents it read
ContentUnchanged ==
    /\ lastcall.made
    /\ \E a \in lastcall.existing :
          a.past_content = lastcall.past_content /\ a.latest_content = lastcall.latest_content

\* C23: there is at most one analysis row per (project_code, latest week,
\* language, category); a call that finds the stored analysis computed from
\* unchanged contents does not invoke the LLM, leaves the table as it was and
\* returns was_created = false; was_created is true only for a call that
\* inserted the row of its key.
C23_OneRowPerKeyAndCached ==
    pc = "analysis" =>
        /\ \A a, b \in analyses :
              (a.project_code = b.project_code /\ a.cw_label = b.cw_label
                  /\ a.language = b.language /\ a.category = b.category) => a = b
        /\ ContentUnchanged => (~lastcall.llm_called /\ ~lastcall.changed /\ ~lastcall.was_created)
        /\ (lastcall.made /\ lastcall.was_created) =>
              (lastcall.existing = {} /\ lastcall.changed /\ Cardinality(KeyRows(analyses)) = 1)

C23_Witness ==
    /\ pc = "analysis"
    /\ ContentUnchanged
    /\ ~lastcall.llm_called
    /\ Cardinality(analyses) >= 2
    /\ \E a \in analyses : a.past_content # <<>>

\* C24: when no strategy yielded a valid entry, every valid entry that the two
\* recovery passes find in the text of a response is returned, whichever of
\* the strategies returned text and whichever raised.
C24_RecoveredEntriesReturned ==
    (/\ pc = "done"
     /\ escaped = "none"
     /\ log # <<>>
     /\ \A i \in 1..Len(log) : log[i].path \notin {"direct", "cleaned"})
        => \A i \in 1..Len(log) : \A j \in 1..Len(log[i].found) :
              \E m \in 1..Len(result) : result[m] = log[i].found[j]

\* C25: the section loop appends synthetic cluster-member rows for a section
\* only if detection found no project in it: at the end of a section with a
\* detected project the collected rows stay as they are.
C25_NoSyntheticRowsWithProject ==
    [][(pc = "chunk" /\ pending = <<>> /\ Detection.projects # <<>>) => all_rows' = all_rows]_vars

====
